---- MODULE Spec2Model ----
(***************************************************************************)
(* Model of the camera plugin's stream registry and frame pipeline         *)
(* (src/src/desktop.rs) and of its peer-connection manager.                *)
(*                                                                         *)
(*  Spec        the stream registry: concurrent start_stream and           *)
(*              stop_stream calls against the Capture Provider.            *)
(*  StreamSpec  one started stream: producer callbacks, the conversion     *)
(*              pool's workers, the consumer channel and stop_stream.      *)
(*  StreamFairSpec  StreamSpec with the fairness the thread pool and the   *)
(*              capture thread give.                                       *)
(*  RtcSpec     the WebRTC manager (src/src/webrtc.rs) under concurrent    *)
(*              calls of its methods.                                      *)
(*  CompositeSpec  start_camera_webrtc_session (src/src/commands/webrtc.rs)*)
(*              among the calls that create and close connections.         *)
(***************************************************************************)
EXTENDS Integers, Sequences, FiniteSets, Bags, TLC

\* ------------------------------------------------------------------ bounds
MaxStarts == 2          \* start_stream invocations (each makes one session id)
MaxStops == 2           \* stop_stream invocations
MaxFrames == 5          \* frames the stream's callback gets to count
MaxCallbackThreads == 2 \* callback invocations that may run at the same time
FrameWidth == 2         \* the frames' width
FrameHeight == 2        \* the frames' height
MaxConnections == 1     \* peer connections created (each makes one id)
MaxComposites == 1      \* start_camera_webrtc_session invocations
MaxCalls == 2           \* manager and command invocations in progress at a time
MaxWrites == 5          \* frames the producer writes into the holder (F1..F5)
MaxText == 2            \* characters of a string field of a wire value

\* ------------------------------------------------------- program constants
PoolCapacity == 3       \* the admission limit: current_active >= 3
NumThreads == 3         \* ThreadPoolBuilder::num_threads(3)
LogEvery == 150         \* frame_id % 150 == 0

Devices == {"cam0", "cam1"}
\* uuid::Uuid::new_v4(): a fresh id per start_stream call; call c makes id c.
SessionIds == 1..MaxStarts
StartCalls == 1..MaxStarts
StopCalls == 1..MaxStops
\* What start_camera_preview may hand back: crabcamera returns a String that
\* the code stores as camera_id; the device id or a status text.
PreviewText == "preview started"
PreviewReturns(device_id) == {device_id, PreviewText}
\* What the Capture Provider holds as a device's callback: nothing yet, the
\* closure start_stream built for a session, or stop_stream's |_| {}.
NoCallback == <<"none">>
Closure(session_id) == <<"closure", session_id>>
NoOp == <<"noop">>

VARIABLES
    active_streams,  \* Camera.active_streams: session id -> [camera_id]
    running,         \* the Arc<AtomicBool> of each closure, by session id
    preview,         \* Capture Provider: device -> preview running
    callback,        \* Capture Provider: device -> registered closure
    start,           \* start_stream invocations: position and locals
    stop,            \* stop_stream invocations: position and locals
    frame_counter,   \* counter_clone: AtomicU64
    active,          \* active_clone: AtomicUsize, the admission counter
    cb,              \* callback invocations in progress: a bag of [pc, frame_id]
    queue,           \* jobs spawned on the pool and not yet taken
    workers,         \* the jobs the pool's threads are running
    channel,         \* frame events sent on the Channel, in order
    connections,     \* WebRTCManager.connections: the ids in the table
    connection_to_device, \* WebRTCManager.connection_to_device: id -> device
    peer,            \* the PeerConnection objects made so far, by id
    returned,        \* the connection ids handed back to a caller
    initialized,     \* the capture subsystem has been initialized
    device_streams,  \* devices whose stream a composite call has started
    bridges,         \* the (device, connection) pairs bound to a bridge
    composite,       \* start_camera_webrtc_session invocations
    attach,          \* attach_h264_video_track invocations in progress
    close,           \* close_connection invocations in progress
    reply,           \* what the manager call that returned last returned
    commands,        \* negotiation command invocations in progress
    holder,          \* the latest-value slot: the frame it holds
    observed,        \* the frame ids the slot's consumer has taken, in order
    consumer,        \* the consumer task's position
    bridge,          \* the Encoding Bridge task of the binding
    value,           \* a value object handed to the serializer
    wire,            \* its serialized form
    parsed,          \* what the deserializer made of the serialized form
    conversion,      \* a call of a pixel-format converter: its arguments
    converted        \* what the call returned

registryVars == <<active_streams, running, preview, callback, start, stop>>
streamVars == <<frame_counter, active, cb, queue, workers, channel>>
rtcVars == <<connections, connection_to_device, peer, returned, initialized,
             device_streams, bridges, composite, attach, close, reply>>
bridgeVars == <<holder, observed, consumer, bridge>>
pureVars == <<value, wire, parsed, conversion, converted>>
sideVars == <<commands, holder, observed, consumer, bridge, value, wire, parsed,
              conversion, converted>>
vars == <<active_streams, running, preview, callback, start, stop, frame_counter,
          active, cb, queue, workers, channel, connections, connection_to_device,
          peer, returned, initialized, device_streams, bridges, composite, attach,
          close, reply, commands, holder, observed, consumer, bridge, value, wire,
          parsed, conversion, converted>>

\* ------------------------------------------------------------- start_stream
\* calls: the requests an invocation has made to the Capture Provider, in order.
IdleStart == [pc |-> "idle", device_id |-> "", camera |-> "", result |-> "none",
              calls |-> << >>]
IdleStop == [pc |-> "idle", session_id |-> 0, camera_id |-> "", result |-> "none",
             calls |-> << >>]

\* desktop.rs 84-89: the scan of the registry for the device.
AlreadyActive(device_id) ==
    \E s \in DOMAIN active_streams : active_streams[s].camera_id = device_id

\* desktop.rs 77-90: start_stream(device_id) begins with the check under the
\* lock, which the block's end releases before anything is opened.  Calls
\* enter in index order: the call ids are interchangeable.
StartCheck(c, d) ==
    /\ start[c].pc = "idle"
    /\ \A b \in StartCalls : b < c => start[b].pc # "idle"
    /\ IF AlreadyActive(d)
       THEN start' = [start EXCEPT ![c] = [@ EXCEPT !.pc = "done", !.device_id = d,
                                            !.result = "StreamingAlreadyActive"]]
       ELSE start' = [start EXCEPT ![c] = [@ EXCEPT !.pc = "format", !.device_id = d]]
    /\ UNCHANGED <<active_streams, running, preview, callback, stop>>
    /\ UNCHANGED <<streamVars, rtcVars, sideVars>>

\* desktop.rs 92-94: get_recommended_format().await, Err returns.
StartFormat(c) ==
    /\ start[c].pc = "format"
    /\ \E ok \in BOOLEAN :
         start' = [start EXCEPT ![c] =
                     IF ok THEN [@ EXCEPT !.pc = "preview",
                                          !.calls = Append(@, "get_recommended_format")]
                     ELSE [@ EXCEPT !.pc = "done", !.result = "CameraError: format",
                                    !.calls = Append(@, "get_recommended_format")]]
    /\ UNCHANGED <<active_streams, running, preview, callback, stop>>
    /\ UNCHANGED <<streamVars, rtcVars, sideVars>>

\* desktop.rs 95-116: start_camera_preview(device_id).await; on Ok the
\* closure's counters and its running flag (true) are created.
StartPreview(c) ==
    /\ start[c].pc = "preview"
    /\ \/ /\ \E cam \in PreviewReturns(start[c].device_id) :
               start' = [start EXCEPT ![c] = [@ EXCEPT !.pc = "set_callback",
                                                    !.camera = cam,
                                                    !.calls = Append(@, "start_camera_preview")]]
          /\ preview' = [preview EXCEPT ![start[c].device_id] = TRUE]
          /\ running' = [running EXCEPT ![c] = TRUE]
       \/ /\ start' = [start EXCEPT ![c] = [@ EXCEPT !.pc = "done",
                                               !.result = "CameraError: preview",
                                               !.calls = Append(@, "start_camera_preview")]]
          /\ UNCHANGED <<preview, running>>
    /\ UNCHANGED <<active_streams, callback, stop>>
    /\ UNCHANGED <<streamVars, rtcVars, sideVars>>

\* desktop.rs 290-292: set_callback(device_id, callback).await, Err returns.
StartSetCallback(c) ==
    /\ start[c].pc = "set_callback"
    /\ \/ /\ callback' = [callback EXCEPT ![start[c].device_id] = Closure(c)]
          /\ start' = [start EXCEPT ![c] = [@ EXCEPT !.pc = "insert",
                                               !.calls = Append(@, "set_callback")]]
       \/ /\ start' = [start EXCEPT ![c] = [@ EXCEPT !.pc = "done",
                                               !.result = "CameraError: callback",
                                               !.calls = Append(@, "set_callback")]]
          /\ UNCHANGED callback
    /\ UNCHANGED <<active_streams, running, preview, stop>>
    /\ UNCHANGED <<streamVars, rtcVars, sideVars>>

\* desktop.rs 295-302: the entry; camera_id is the provider's string.
NewStream(c) == [camera_id |-> start[c].camera]

\* desktop.rs 294-309: the entry goes in under a second acquisition of the
\* lock, with no second scan.
InsertStream(c) ==
    [s \in DOMAIN active_streams \cup {c} |->
        IF s = c THEN NewStream(c) ELSE active_streams[s]]

StartInsert(c) ==
    /\ start[c].pc = "insert"
    /\ active_streams' = InsertStream(c)
    /\ start' = [start EXCEPT ![c] = [@ EXCEPT !.pc = "done", !.result = "Ok"]]
    /\ UNCHANGED <<running, preview, callback, stop>>
    /\ UNCHANGED <<streamVars, rtcVars, sideVars>>

\* -------------------------------------------------------------- stop_stream
\* desktop.rs 325-327: streams.remove(&session_id)
RemoveNothing(s) == active_streams
RemoveStream(s) == [t \in DOMAIN active_streams \ {s} |-> active_streams[t]]

\* desktop.rs 325-327: .ok_or_else(|| Error::StreamNotFound(session_id))? leaves
\* stop_stream when the registry has no entry for the id.
ProceedsUnknown(k, s) == [stop[k] EXCEPT !.pc = "stop_preview", !.session_id = s]
StreamNotFound(k, s) ==
    [stop[k] EXCEPT !.pc = "done", !.session_id = s, !.result = "StreamNotFound"]

\* desktop.rs 312-328: stop_stream(session_id) begins with the lock: under one
\* acquisition the flag is cleared and the entry removed; an unknown id
\* returns StreamNotFound.
StopRemove(k, s) ==
    /\ stop[k].pc = "idle"
    /\ \A j \in StopCalls : j < k => stop[j].pc # "idle"
    /\ IF s \in DOMAIN active_streams
       THEN /\ running' = [running EXCEPT ![s] = FALSE]
            /\ active_streams' = RemoveStream(s)
            /\ stop' = [stop EXCEPT ![k] = [@ EXCEPT !.pc = "stop_preview",
                                                 !.session_id = s,
                                                 !.camera_id = active_streams[s].camera_id]]
       ELSE /\ stop' = [stop EXCEPT ![k] = StreamNotFound(k, s)]
            /\ UNCHANGED <<running, active_streams>>
    /\ UNCHANGED <<preview, callback, start>>
    /\ UNCHANGED <<streamVars, rtcVars, sideVars>>

\* desktop.rs 337-339: the `?` on stop_camera_preview's Err leaves stop_stream.
AfterStopFailure(k) ==
    [stop[k] EXCEPT !.pc = "done", !.result = "CameraError: stop camera",
                    !.calls = Append(@, "stop_camera_preview")]

\* desktop.rs 336-339: stop_camera_preview(stream.camera_id).await?
StopPreview(k) ==
    /\ stop[k].pc = "stop_preview"
    /\ \/ /\ preview' = [d \in Devices |->
                           IF d = stop[k].camera_id THEN FALSE ELSE preview[d]]
          /\ stop' = [stop EXCEPT ![k] = [@ EXCEPT !.pc = "clear_callback",
                                              !.calls = Append(@, "stop_camera_preview")]]
       \/ /\ stop' = [stop EXCEPT ![k] = AfterStopFailure(k)]
          /\ UNCHANGED preview
    /\ UNCHANGED <<active_streams, running, callback, start>>
    /\ UNCHANGED <<streamVars, rtcVars, sideVars>>

\* desktop.rs 341-349: set_callback(stream.camera_id, |_| {}).await?
StopClearCallback(k) ==
    /\ stop[k].pc = "clear_callback"
    /\ \/ /\ callback' = [d \in Devices |->
                            IF d = stop[k].camera_id THEN NoOp ELSE callback[d]]
          /\ stop' = [stop EXCEPT ![k] = [@ EXCEPT !.pc = "done", !.result = "Ok",
                                              !.calls = Append(@, "set_callback")]]
       \/ /\ stop' = [stop EXCEPT ![k] = [@ EXCEPT !.pc = "done",
                                              !.result = "CameraError: clear callback",
                                              !.calls = Append(@, "set_callback")]]
          /\ UNCHANGED callback
    /\ UNCHANGED <<active_streams, running, preview, start>>
    /\ UNCHANGED <<streamVars, rtcVars, sideVars>>

\* ------------------------------------------------------------ the registry
\* desktop.rs 16-24: init, an empty registry; no device opened.
RegistryInit ==
    /\ active_streams = << >>
    /\ running = [s \in SessionIds |-> FALSE]
    /\ preview = [d \in Devices |-> FALSE]
    /\ callback = [d \in Devices |-> NoCallback]
    /\ start = [c \in StartCalls |-> IdleStart]
    /\ stop = [k \in StopCalls |-> IdleStop]

\* desktop.rs 99-116: what start_stream creates for the closure.
StreamIdle ==
    /\ frame_counter = 0
    /\ active = 0
    /\ cb = EmptyBag
    /\ queue = << >>
    /\ workers = {}
    /\ channel = << >>

\* ------------------------------------------------------ the WebRTC manager
\* uuid::Uuid::new_v4() (webrtc.rs 77): the n-th connection made gets id n.
\* UnknownId is an id no call of it returned.
UnknownId == 0
CompositeCalls == 1..MaxComposites

\* webrtc.rs 111-115: the PeerConnection create_peer_connection builds:
\* video_track is None and its mutex free; the RTCPeerConnection has no
\* track, is open and has no local and no remote description.
NewPeer == [video_track |-> FALSE, locked |-> FALSE, tracks |-> 0,
            closed |-> FALSE, local_description |-> "none",
            remote_description |-> "none"]

\* steps: the steps an invocation of the composite has run, in order.
IdleComposite == [pc |-> "idle", device_id |-> "", connection_id |-> UnknownId,
                  result |-> "none", steps |-> << >>]
\* An attach_h264_video_track or close_connection invocation in progress:
\* where it stands and its locals.  The callers are interchangeable, so the
\* invocations in progress are bags.  A reply is what a call returned.
AttachCall(pc, id) == [pc |-> pc, connection_id |-> id]
CloseCall(id, found) == [connection_id |-> id, found |-> found]
Reply(op, id, found, result) ==
    [op |-> op, connection_id |-> id, found |-> found, result |-> result]
NoReply == Reply("none", UnknownId, FALSE, "none")
\* The invocations of the manager's methods and of the commands under way.
InProgress == BagCardinality(attach) + BagCardinality(close) + BagCardinality(commands)

\* webrtc.rs 45-51: WebRTCManager::new(), empty tables.
RtcIdle ==
    /\ connections = {}
    /\ connection_to_device = << >>
    /\ peer = << >>
    /\ returned = {}
    /\ initialized = FALSE
    /\ device_streams = {}
    /\ bridges = {}
    /\ composite = [c \in CompositeCalls |-> IdleComposite]
    /\ attach = EmptyBag
    /\ close = EmptyBag
    /\ reply = NoReply

\* ------------------------------------------- the parts that start later
\* No negotiation command is under way; no frame has been distributed and no
\* Encoding Bridge bound; no value object or frame is at a converter.
None == "none"
NoFrame == 0
CommandsIdle == commands = EmptyBag
HolderIdle == holder = NoFrame /\ observed = << >> /\ consumer = "wait"
BridgeIdle == bridge = None
NoValue == [kind |-> "none"]
SerdeIdle == value = NoValue /\ wire = << >> /\ parsed = NoValue
NoResult == [kind |-> "none", len |-> 0]
ConversionIdle == conversion = [fn |-> "none"] /\ converted = NoResult
SideIdle == CommandsIdle /\ HolderIdle /\ BridgeIdle /\ SerdeIdle /\ ConversionIdle

Init == RegistryInit /\ StreamIdle /\ RtcIdle /\ SideIdle

\* The registry under concurrent start_stream and stop_stream calls.
Next ==
    \/ \E c \in StartCalls, d \in Devices : StartCheck(c, d)
    \/ \E c \in StartCalls : StartFormat(c)
    \/ \E c \in StartCalls : StartPreview(c)
    \/ \E c \in StartCalls : StartSetCallback(c)
    \/ \E c \in StartCalls : StartInsert(c)
    \/ \E k \in StopCalls, s \in SessionIds : StopRemove(k, s)
    \/ \E k \in StopCalls : StopPreview(k)
    \/ \E k \in StopCalls : StopClearCallback(k)

Spec == Init /\ [][Next]_vars

\* ------------------------------------------------------- the frame pipeline
\* The stream whose closure the pipeline variables belong to.
StreamId == 1
StreamDevice == "cam0"

\* A crabcamera::CameraFrame: format tag, width, height and data.len().
ExpectedSize(width, height) == (width * height * 3) \div 2
Frames ==
    {[format |-> f, width |-> FrameWidth, height |-> FrameHeight, len |-> n] :
        f \in {"NV12", "YUV"},
        n \in {ExpectedSize(FrameWidth, FrameHeight),
               ExpectedSize(FrameWidth, FrameHeight) - 1}}
    \cup
    {[format |-> f, width |-> FrameWidth, height |-> FrameHeight,
      len |-> FrameWidth * FrameHeight * 3] : f \in {"RGB8", "MJPEG"}}

\* AtomicUsize arithmetic wraps: fetch_sub at 0 gives usize::MAX, for which
\* UsizeMax stands.
UsizeMax == 2147483647
FetchAdd(x) == IF x = UsizeMax THEN 0 ELSE x + 1
FetchSub(x) == IF x = 0 THEN UsizeMax ELSE x - 1

\* The Capture Provider calls the closure registered for the device.
Registered == callback[StreamDevice] = Closure(StreamId)

\* A callback invocation in progress: where it stands and the frame id it
\* drew.  The capture threads are interchangeable, so the invocations are a bag.
Invocation(pc, frame_id) == [pc |-> pc, frame_id |-> frame_id]
Moved(inv, next) == (cb (-) SetToBag({inv})) (+) SetToBag({next})
Returned(inv) == cb (-) SetToBag({inv})

\* desktop.rs 117-122: the callback is entered and loads the running flag;
\* false returns at once.  Nothing reads the frame it was given before the
\* job's match on the format tag, where the model draws it.
\* StillRunning is the load of line 119.
FlagIgnored == TRUE
StillRunning == running[StreamId]
CallbackEnter ==
    /\ Registered
    /\ frame_counter + BagCardinality(cb) < MaxFrames
    /\ BagCardinality(cb) < MaxCallbackThreads
    /\ IF StillRunning
       THEN cb' = cb (+) SetToBag({Invocation("count", 0)})
       ELSE UNCHANGED cb
    /\ UNCHANGED <<frame_counter, active, queue, workers, channel>>
    /\ UNCHANGED <<registryVars, rtcVars, sideVars>>

\* desktop.rs 125: the frames the callback returns on before admission.
NeverSkipped(frame_id) == FALSE
Skipped(frame_id) == frame_id % LogEvery = 0

\* desktop.rs 124-131: frame_id = counter.fetch_add(1); every 150th returns.
\* FrameId is what the fetch_add hands the invocation: the value before it.
StaleLoad(counter) == IF counter > 1 THEN counter - 1 ELSE counter
FrameId(counter) == counter
CallbackCount(inv) ==
    /\ inv.pc = "count"
    /\ frame_counter' = frame_counter + 1
    /\ IF Skipped(FrameId(frame_counter))
       THEN cb' = Returned(inv)
       ELSE cb' = Moved(inv, Invocation("load", FrameId(frame_counter)))
    /\ UNCHANGED <<active, queue, workers, channel>>
    /\ UNCHANGED <<registryVars, rtcVars, sideVars>>

\* desktop.rs 134: the pool is full.
PoolFull(current_active) == current_active >= PoolCapacity

\* desktop.rs 135-140: the frame is logged as skipped and the callback returns.
AwaitSlot(inv) == cb
SkipFull(inv) == Returned(inv)

\* desktop.rs 132-141: current_active = active.load(); full returns.
CallbackLoad(inv) ==
    /\ inv.pc = "load"
    /\ IF PoolFull(active)
       THEN cb' = SkipFull(inv)
       ELSE cb' = Moved(inv, Invocation("reserve", inv.frame_id))
    /\ UNCHANGED <<frame_counter, active, queue, workers, channel>>
    /\ UNCHANGED <<registryVars, rtcVars, sideVars>>

\* desktop.rs 146-147: the double check on the value fetch_add returned.
NoDoubleCheck(new_active) == FALSE
PoolBecameFull(new_active) == new_active >= PoolCapacity

\* desktop.rs 143-151: new_active = active.fetch_add(1); the double check
\* sends a value that was already full to the fetch_sub.
CallbackReserve(inv) ==
    /\ inv.pc = "reserve"
    /\ active' = FetchAdd(active)
    /\ IF PoolBecameFull(active)
       THEN cb' = Moved(inv, Invocation("undo", inv.frame_id))
       ELSE cb' = Moved(inv, Invocation("spawn", inv.frame_id))
    /\ UNCHANGED <<frame_counter, queue, workers, channel>>
    /\ UNCHANGED <<registryVars, rtcVars, sideVars>>

\* desktop.rs 148: the reservation is given back.
NoRollback(x) == x
Rollback(x) == FetchSub(x)

\* desktop.rs 148-150: active.fetch_sub(1) and return.
CallbackUndo(inv) ==
    /\ inv.pc = "undo"
    /\ active' = Rollback(active)
    /\ cb' = Returned(inv)
    /\ UNCHANGED <<frame_counter, queue, workers, channel>>
    /\ UNCHANGED <<registryVars, rtcVars, sideVars>>

\* desktop.rs 153-161, 288: pool.spawn(job); the callback returns.
CallbackSpawn(inv) ==
    /\ inv.pc = "spawn"
    /\ queue' = Append(queue, inv.frame_id)
    /\ cb' = Returned(inv)
    /\ UNCHANGED <<frame_counter, active, workers, channel>>
    /\ UNCHANGED <<registryVars, rtcVars, sideVars>>

\* utils.rs 85-96 and 16-27: the size validation of the two converters.
Undersized(frame) == frame.len < ExpectedSize(frame.width, frame.height)

\* desktop.rs 191-240: the match on the format tag: the output format, or
\* the arm that returns.
Convert(frame) ==
    CASE frame.format = "NV12" -> IF Undersized(frame) THEN "return" ELSE "RGBA"
      [] frame.format = "RGB8" -> "RGB8"
      [] frame.format = "YUV" -> IF Undersized(frame) THEN "return" ELSE "RGBA"
      [] OTHER -> "return"

\* A job on a pool thread: the frame id it captured and where it stands.  The
\* threads are interchangeable, so the busy ones are the set of their jobs.
Job(frame_id, pc) == [frame_id |-> frame_id, pc |-> pc]

\* desktop.rs 161-257: an idle pool thread takes the next job; the job makes
\* its guard and matches on the format tag: a failed conversion or an
\* unsupported tag returns (the guard drops), the rest builds the FrameEvent.
\* AfterConvert is where the job stands once the match is done.
SendAnyway(frame) == "send"
AfterConvert(frame) == IF Convert(frame) = "return" THEN "drop" ELSE "send"
WorkerConvert(frame) ==
    /\ Cardinality(workers) < NumThreads
    /\ queue # << >>
    /\ workers' = workers \cup {Job(Head(queue), AfterConvert(frame))}
    /\ queue' = Tail(queue)
    /\ UNCHANGED <<frame_counter, active, cb, channel>>
    /\ UNCHANGED <<registryVars, rtcVars, sideVars>>

\* desktop.rs 250-257: the event's frame_id, by which the channel's content
\* is told apart.
FrameEvent(job) == job.frame_id

\* desktop.rs 266-285: frame_channel.send(frame_event); an Err is logged.
WorkerSend(job) ==
    /\ job \in workers
    /\ job.pc = "send"
    /\ \/ channel' = Append(channel, FrameEvent(job))
       \/ UNCHANGED channel
    /\ workers' = (workers \ {job}) \cup {Job(job.frame_id, "drop")}
    /\ UNCHANGED <<frame_counter, active, cb, queue>>
    /\ UNCHANGED <<registryVars, rtcVars, sideVars>>

\* desktop.rs 163-168: impl Drop for DecOnDrop.
DropWithoutDec(x) == x
DecOnDrop(x) == FetchSub(x)

\* desktop.rs 169, 208, 232, 238, 287: the guard's drop at each end of the job.
WorkerDrop(job) ==
    /\ job \in workers
    /\ job.pc = "drop"
    /\ active' = DecOnDrop(active)
    /\ workers' = workers \ {job}
    /\ UNCHANGED <<frame_counter, cb, queue, channel>>
    /\ UNCHANGED <<registryVars, rtcVars, sideVars>>

\* The state start_stream(StreamDevice) leaves when it returns Ok
\* (desktop.rs 77-310) with no other call made.
StartedCall(cam) ==
    [pc |-> "done", device_id |-> StreamDevice, camera |-> cam, result |-> "Ok",
     calls |-> <<"get_recommended_format", "start_camera_preview", "set_callback">>]

StreamInit ==
    /\ \E cam \in PreviewReturns(StreamDevice) :
         /\ active_streams = [s \in {StreamId} |-> [camera_id |-> cam]]
         /\ start = [c \in StartCalls |-> IF c = StreamId THEN StartedCall(cam)
                                          ELSE IdleStart]
    /\ running = [s \in SessionIds |-> s = StreamId]
    /\ preview = [d \in Devices |-> d = StreamDevice]
    /\ callback = [d \in Devices |-> IF d = StreamDevice THEN Closure(StreamId)
                                   ELSE NoCallback]
    /\ stop = [k \in StopCalls |-> IdleStop]
    /\ StreamIdle
    /\ RtcIdle
    /\ SideIdle

\* One stream from the return of its start_stream to the end of one
\* stop_stream call for it; concurrent stop_stream calls are Spec's.
StreamNext ==
    \/ CallbackEnter
    \/ \E inv \in BagToSet(cb) : CallbackCount(inv)
    \/ \E inv \in BagToSet(cb) : CallbackLoad(inv)
    \/ \E inv \in BagToSet(cb) : CallbackReserve(inv)
    \/ \E inv \in BagToSet(cb) : CallbackUndo(inv)
    \/ \E inv \in BagToSet(cb) : CallbackSpawn(inv)
    \/ \E frame \in Frames : WorkerConvert(frame)
    \/ \E job \in workers : WorkerSend(job)
    \/ \E job \in workers : WorkerDrop(job)
    \/ StopRemove(1, StreamId)
    \/ \E k \in StopCalls : StopPreview(k)
    \/ \E k \in StopCalls : StopClearCallback(k)

StreamSpec == StreamInit /\ [][StreamNext]_vars

\* The capture thread runs a callback it entered to its return, and the
\* pool's threads run every job spawned on them (rayon keeps the pool alive
\* until its spawned jobs are done).  Nothing makes the provider deliver
\* another frame or a caller stop the stream.
CallbackStep ==
    \/ \E inv \in BagToSet(cb) : CallbackCount(inv)
    \/ \E inv \in BagToSet(cb) : CallbackLoad(inv)
    \/ \E inv \in BagToSet(cb) : CallbackReserve(inv)
    \/ \E inv \in BagToSet(cb) : CallbackUndo(inv)
    \/ \E inv \in BagToSet(cb) : CallbackSpawn(inv)

WorkerStep ==
    \/ \E frame \in Frames : WorkerConvert(frame)
    \/ \E job \in workers : WorkerSend(job)
    \/ \E job \in workers : WorkerDrop(job)

StreamFairSpec == StreamSpec /\ WF_vars(CallbackStep) /\ WF_vars(WorkerStep)

\* ------------------------------------------------ the WebRTC manager's calls
\* The ids a caller can pass: the ones a call handed back to it, and ids no
\* call made.  An id still inside a running composite is known to nobody.
Handles == returned \cup {UnknownId}

\* webrtc.rs 124-131: get_connection(id), the lookup under the table's lock.
NotFound == "Peer connection not found"
GetConnection(id) == IF id \in connections THEN "Ok" ELSE NotFound

\* webrtc.rs 76-121: create_peer_connection called on the manager.  The
\* engine's three fallible calls come before the insert, so an Err leaves
\* the tables as they were.
CreatePeerConnection ==
    /\ Len(peer) < MaxConnections
    /\ \/ /\ peer' = Append(peer, NewPeer)
          /\ connections' = connections \cup {Len(peer) + 1}
          /\ returned' = returned \cup {Len(peer) + 1}
       \/ UNCHANGED <<peer, connections, returned>>
    /\ UNCHANGED <<connection_to_device, initialized, device_streams, bridges,
                   composite, attach, close, reply>>
    /\ UNCHANGED <<registryVars, streamVars, sideVars>>

\* webrtc.rs 59-62: self.connection_to_device.lock().await.insert(id, device)
BindNothing(id, d) == connection_to_device
Bind(id, d) ==
    [i \in DOMAIN connection_to_device \cup {id} |->
        IF i = id THEN d ELSE connection_to_device[i]]

\* webrtc.rs 54-64: register_device_for_connection called on the manager: the
\* binding goes in whether or not the table has the connection.
RegisterDevice(id, d) ==
    /\ id \in Handles
    /\ connection_to_device' = Bind(id, d)
    /\ UNCHANGED <<connections, peer, returned, initialized, device_streams,
                   bridges, composite, attach, close, reply>>
    /\ UNCHANGED <<registryVars, streamVars, sideVars>>

\* webrtc.rs 157-158: attach_h264_video_track(id) looks the connection up.
AttachGet(id) ==
    /\ InProgress < MaxCalls
    /\ id \in Handles
    /\ IF GetConnection(id) = "Ok"
       THEN /\ attach' = attach (+) SetToBag({AttachCall("lock", id)})
            /\ UNCHANGED reply
       ELSE /\ reply' = Reply("attach_h264_video_track", id, FALSE, NotFound)
            /\ UNCHANGED attach
    /\ UNCHANGED <<connections, connection_to_device, peer, returned, initialized,
                   device_streams, bridges, composite, close>>
    /\ UNCHANGED <<registryVars, streamVars, sideVars>>

\* webrtc.rs 162: video_track_guard.is_some()
NeverAttached(id) == FALSE
AlreadyAttached(id) == peer[id].video_track

\* webrtc.rs 159-164: the video_track mutex is taken; a track that is there
\* returns Ok, and the guard's drop frees the mutex.
AttachLock(call) ==
    /\ call.pc = "lock"
    /\ ~peer[call.connection_id].locked
    /\ IF AlreadyAttached(call.connection_id)
       THEN /\ attach' = attach (-) SetToBag({call})
            /\ reply' = Reply("attach_h264_video_track", call.connection_id, TRUE, "Ok")
            /\ UNCHANGED peer
       ELSE /\ attach' = (attach (-) SetToBag({call}))
                           (+) SetToBag({AttachCall("add_track", call.connection_id)})
            /\ peer' = [peer EXCEPT ![call.connection_id].locked = TRUE]
            /\ UNCHANGED reply
    /\ UNCHANGED <<connections, connection_to_device, returned, initialized,
                   device_streams, bridges, composite, close>>
    /\ UNCHANGED <<registryVars, streamVars, sideVars>>

\* webrtc.rs 166-183: the track is made, pc.add_track registers it and the
\* guard is set to Some; the guard's drop frees the mutex.
AddTrack(id) ==
    [peer EXCEPT ![id] = [@ EXCEPT !.tracks = @ + 1, !.video_track = TRUE,
                                   !.locked = FALSE]]

\* webrtc.rs 177-183: pc.add_track(track).await, Err returns with the guard
\* still None.
AttachAddTrack(call) ==
    /\ call.pc = "add_track"
    /\ attach' = attach (-) SetToBag({call})
    /\ \/ /\ peer' = AddTrack(call.connection_id)
          /\ reply' = Reply("attach_h264_video_track", call.connection_id, TRUE, "Ok")
       \/ /\ peer' = [peer EXCEPT ![call.connection_id].locked = FALSE]
          /\ reply' = Reply("attach_h264_video_track", call.connection_id, TRUE,
                            "Failed to add video track")
    /\ UNCHANGED <<connections, connection_to_device, returned, initialized,
                   device_streams, bridges, composite, close>>
    /\ UNCHANGED <<registryVars, streamVars, sideVars>>

\* commands/webrtc.rs 147-156: get_connection_state(connection_id): the lookup,
\* then the state's string, for which "Ok" stands.
GetConnectionState(id) ==
    /\ id \in Handles
    /\ reply' = Reply("get_connection_state", id, id \in connections, GetConnection(id))
    /\ UNCHANGED <<connections, connection_to_device, peer, returned, initialized,
                   device_streams, bridges, composite, attach, close>>
    /\ UNCHANGED <<registryVars, streamVars, sideVars>>

\* webrtc.rs 137: self.connections.lock().await.remove(id)
KeepConnection(id) == connections
RemoveConnection(id) == connections \ {id}

\* webrtc.rs 143: self.connection_to_device.lock().await.remove(id)
Unbind(id) ==
    [i \in DOMAIN connection_to_device \ {id} |-> connection_to_device[i]]

\* webrtc.rs 134-141 (commands/webrtc.rs 140-144): remove_connection(id) reads
\* the binding for its log line, takes the connection out of the table and,
\* when there was one, closes it while the table's lock is held: an Err of
\* pc.close() returns through the `?`.  With no connection under the id the
\* call goes on to the binding.
CloseRemove(id) ==
    /\ InProgress < MaxCalls
    /\ id \in Handles
    /\ IF id \in connections
       THEN /\ connections' = RemoveConnection(id)
            /\ \/ /\ peer' = [peer EXCEPT ![id].closed = TRUE]
                  /\ close' = close (+) SetToBag({CloseCall(id, TRUE)})
                  /\ UNCHANGED reply
               \/ /\ reply' = Reply("close_connection", id, TRUE,
                                    "Failed to close peer connection")
                  /\ UNCHANGED <<peer, close>>
       ELSE /\ close' = close (+) SetToBag({CloseCall(id, FALSE)})
            /\ UNCHANGED <<connections, peer, reply>>
    /\ UNCHANGED <<connection_to_device, returned, initialized, device_streams,
                   bridges, composite, attach>>
    /\ UNCHANGED <<registryVars, streamVars, sideVars>>

\* webrtc.rs 143-152: the binding is removed and Ok(()) returned.
CloseUnbind(call) ==
    /\ connection_to_device' = Unbind(call.connection_id)
    /\ close' = close (-) SetToBag({call})
    /\ reply' = Reply("close_connection", call.connection_id, call.found, "Ok")
    /\ UNCHANGED <<connections, peer, returned, initialized, device_streams,
                   bridges, composite, attach>>
    /\ UNCHANGED <<registryVars, streamVars, sideVars>>

\* The manager under concurrent calls of its methods.
RtcNext ==
    \/ CreatePeerConnection
    \/ \E id \in Handles, d \in Devices : RegisterDevice(id, d)
    \/ \E id \in Handles : AttachGet(id)
    \/ \E call \in BagToSet(attach) : AttachLock(call)
    \/ \E call \in BagToSet(attach) : AttachAddTrack(call)
    \/ \E id \in Handles : GetConnectionState(id)
    \/ \E id \in Handles : CloseRemove(id)
    \/ \E call \in BagToSet(close) : CloseUnbind(call)

RtcSpec == Init /\ [][RtcNext]_vars

\* --------------------------------------------- start_camera_webrtc_session
\* commands/webrtc.rs 160-216: the calls the composite makes, in the order of
\* its statements; each but the second-last ends in `?`.
CompositeOrder ==
    <<"initialize", "create_peer_connection", "register_device_for_connection",
      "attach_h264_video_track", "start_streaming", "connect_camera_to_webrtc",
      "get_connection", "create_offer", "set_local_description">>
Position(step) == CHOOSE i \in DOMAIN CompositeOrder : CompositeOrder[i] = step
After(step) ==
    IF Position(step) = Len(CompositeOrder) THEN "done"
    ELSE CompositeOrder[Position(step) + 1]

\* The statement after a call that returned Ok.
Advance(c, step) ==
    [composite[c] EXCEPT !.pc = After(step), !.steps = Append(@, step)]

\* The `?` on a call that returned Err: the composite returns the error.
CarryOn(c, step, error) ==
    [composite[c] EXCEPT !.pc = After(step), !.result = error,
                         !.steps = Append(@, step)]
Abort(c, step, error) ==
    [composite[c] EXCEPT !.pc = "done", !.result = error, !.steps = Append(@, step)]

\* commands/webrtc.rs 160-167, desktop.rs 50-54: camera.initialize().await?
CompositeInitialize(c, d) ==
    /\ composite[c].pc = "idle"
    /\ \A b \in CompositeCalls : b < c => composite[b].pc # "idle"
    /\ \/ /\ initialized' = TRUE
          /\ composite' = [composite EXCEPT ![c] =
                             [Advance(c, "initialize") EXCEPT !.device_id = d]]
       \/ /\ UNCHANGED initialized
          /\ composite' = [composite EXCEPT ![c] =
                [Abort(c, "initialize", "Failed to initialize camera system")
                    EXCEPT !.device_id = d]]
    /\ UNCHANGED <<connections, connection_to_device, peer, returned,
                   device_streams, bridges, attach, close, reply>>
    /\ UNCHANGED <<registryVars, streamVars, sideVars>>

\* commands/webrtc.rs 169-181, webrtc.rs 76-121: create_peer_connection().await?
CompositeCreate(c) ==
    /\ composite[c].pc = "create_peer_connection"
    /\ \/ /\ Len(peer) < MaxConnections
          /\ peer' = Append(peer, NewPeer)
          /\ connections' = connections \cup {Len(peer) + 1}
          /\ composite' = [composite EXCEPT ![c] =
                             [Advance(c, "create_peer_connection")
                                 EXCEPT !.connection_id = Len(peer) + 1]]
       \/ /\ UNCHANGED <<peer, connections>>
          /\ composite' = [composite EXCEPT ![c] =
                Abort(c, "create_peer_connection", "Failed to create peer connection")]
    /\ UNCHANGED <<connection_to_device, returned, initialized, device_streams,
                   bridges, attach, close, reply>>
    /\ UNCHANGED <<registryVars, streamVars, sideVars>>

\* commands/webrtc.rs 183-186, webrtc.rs 54-64: register_device_for_connection
\* returns Ok(()) always.
CompositeRegister(c) ==
    /\ composite[c].pc = "register_device_for_connection"
    /\ connection_to_device' = Bind(composite[c].connection_id, composite[c].device_id)
    /\ composite' = [composite EXCEPT ![c] =
                       Advance(c, "register_device_for_connection")]
    /\ UNCHANGED <<connections, peer, returned, initialized, device_streams,
                   bridges, attach, close, reply>>
    /\ UNCHANGED <<registryVars, streamVars, sideVars>>

\* commands/webrtc.rs 188-189, webrtc.rs 157-184: attach_h264_video_track(id)
\* within the composite: nobody else holds the id, so the lookup, the mutex
\* and add_track run with nothing of this connection's in between.
CompositeAttach(c) ==
    /\ composite[c].pc = "attach_h264_video_track"
    /\ IF GetConnection(composite[c].connection_id) # "Ok"
       THEN /\ composite' = [composite EXCEPT ![c] =
                               Abort(c, "attach_h264_video_track", NotFound)]
            /\ UNCHANGED peer
       ELSE /\ ~peer[composite[c].connection_id].locked
            /\ IF AlreadyAttached(composite[c].connection_id)
               THEN /\ composite' = [composite EXCEPT ![c] =
                                       Advance(c, "attach_h264_video_track")]
                    /\ UNCHANGED peer
               ELSE \/ /\ peer' = AddTrack(composite[c].connection_id)
                       /\ composite' = [composite EXCEPT ![c] =
                                          Advance(c, "attach_h264_video_track")]
                    \/ /\ UNCHANGED peer
                       /\ composite' = [composite EXCEPT ![c] =
                             Abort(c, "attach_h264_video_track",
                                   "Failed to add video track")]
    /\ UNCHANGED <<connections, connection_to_device, returned, initialized,
                   device_streams, bridges, attach, close, reply>>
    /\ UNCHANGED <<registryVars, streamVars, sideVars>>

\* The composite's step 5 has started the device's stream.
StreamStarted(d) == device_streams \cup {d}

\* commands/webrtc.rs 190: camera.start_streaming(device_id).await?
CompositeStartStreaming(c) ==
    /\ composite[c].pc = "start_streaming"
    /\ \/ /\ device_streams' = StreamStarted(composite[c].device_id)
          /\ composite' = [composite EXCEPT ![c] = Advance(c, "start_streaming")]
       \/ /\ UNCHANGED device_streams
          /\ composite' = [composite EXCEPT ![c] =
                Abort(c, "start_streaming", "Failed to start streaming")]
    /\ UNCHANGED <<connections, connection_to_device, peer, returned, initialized,
                   bridges, attach, close, reply>>
    /\ UNCHANGED <<registryVars, streamVars, sideVars>>

\* The composite's step 6 has bound an Encoding Bridge from the device's
\* frames to the connection's track.
BridgeBound(d, id) == bridges \cup {<<d, id>>}

\* commands/webrtc.rs 191-194: camera.connect_camera_to_webrtc(device_id,
\* connection_id).await?
CompositeConnect(c) ==
    /\ composite[c].pc = "connect_camera_to_webrtc"
    /\ \/ /\ bridges' = BridgeBound(composite[c].device_id, composite[c].connection_id)
          /\ composite' = [composite EXCEPT ![c] =
                             Advance(c, "connect_camera_to_webrtc")]
       \/ /\ UNCHANGED bridges
          /\ composite' = [composite EXCEPT ![c] =
                Abort(c, "connect_camera_to_webrtc", "Failed to connect camera")]
    /\ UNCHANGED <<connections, connection_to_device, peer, returned, initialized,
                   device_streams, attach, close, reply>>
    /\ UNCHANGED <<registryVars, streamVars, sideVars>>

\* commands/webrtc.rs 196: manager.get_connection(&connection_id).await?
CompositeGetConnection(c) ==
    /\ composite[c].pc = "get_connection"
    /\ composite' = [composite EXCEPT ![c] =
                       IF GetConnection(composite[c].connection_id) = "Ok"
                       THEN Advance(c, "get_connection")
                       ELSE Abort(c, "get_connection", NotFound)]
    /\ UNCHANGED <<connections, connection_to_device, peer, returned, initialized,
                   device_streams, bridges, attach, close, reply>>
    /\ UNCHANGED <<registryVars, streamVars, sideVars>>

\* commands/webrtc.rs 198-202: conn.pc.create_offer(None).await, Err returns.
CompositeCreateOffer(c) ==
    /\ composite[c].pc = "create_offer"
    /\ \/ composite' = [composite EXCEPT ![c] = Advance(c, "create_offer")]
       \/ composite' = [composite EXCEPT ![c] =
             Abort(c, "create_offer", "Failed to create offer")]
    /\ UNCHANGED <<connections, connection_to_device, peer, returned, initialized,
                   device_streams, bridges, attach, close, reply>>
    /\ UNCHANGED <<registryVars, streamVars, sideVars>>

\* commands/webrtc.rs 204-215: conn.pc.set_local_description(offer).await, Err
\* returns; Ok((description, connection_id)) hands the id to the caller.
CompositeSetLocal(c) ==
    /\ composite[c].pc = "set_local_description"
    /\ \/ /\ peer' = [peer EXCEPT ![composite[c].connection_id].local_description = "offer"]
          /\ returned' = returned \cup {composite[c].connection_id}
          /\ composite' = [composite EXCEPT ![c] =
                             [Advance(c, "set_local_description") EXCEPT !.result = "Ok"]]
       \/ /\ UNCHANGED <<peer, returned>>
          /\ composite' = [composite EXCEPT ![c] =
                Abort(c, "set_local_description", "Failed to set local description")]
    /\ UNCHANGED <<connections, connection_to_device, initialized, device_streams,
                   bridges, attach, close, reply>>
    /\ UNCHANGED <<registryVars, streamVars, sideVars>>

\* The composite among the manager calls that create and close connections.
CompositeNext ==
    \/ \E c \in CompositeCalls, d \in Devices : CompositeInitialize(c, d)
    \/ \E c \in CompositeCalls : CompositeCreate(c)
    \/ \E c \in CompositeCalls : CompositeRegister(c)
    \/ \E c \in CompositeCalls : CompositeAttach(c)
    \/ \E c \in CompositeCalls : CompositeStartStreaming(c)
    \/ \E c \in CompositeCalls : CompositeConnect(c)
    \/ \E c \in CompositeCalls : CompositeGetConnection(c)
    \/ \E c \in CompositeCalls : CompositeCreateOffer(c)
    \/ \E c \in CompositeCalls : CompositeSetLocal(c)
    \/ CreatePeerConnection
    \/ \E id \in Handles : GetConnectionState(id)
    \/ \E id \in Handles : CloseRemove(id)
    \/ \E call \in BagToSet(close) : CloseUnbind(call)

CompositeSpec == Init /\ [][CompositeNext]_vars

\* ------------------------------------------------- the negotiation commands
\* A create_offer or create_answer invocation between its two calls of the
\* transport engine: the command, where it stands and the connection it holds.
Command(op, pc, id) == [op |-> op, pc |-> pc, connection_id |-> id]
Starts(call) == commands (+) SetToBag({call})
Ends(call) == commands (-) SetToBag({call})

\* The transport engine refuses a call on a peer connection that was closed.
Open(id) == ~peer[id].closed

\* commands/webrtc.rs 93: description.sdp_type.to_lowercase(), on the types a
\* caller may declare.
DeclaredTypes == {"offer", "answer", "Offer", "pranswer"}
ToLowercase(sdp_type) ==
    CASE sdp_type = "Offer" -> "offer"
      [] sdp_type = "OFFER" -> "offer"
      [] sdp_type = "Answer" -> "answer"
      [] sdp_type = "ANSWER" -> "answer"
      [] OTHER -> sdp_type

\* commands/webrtc.rs 93-104: the match on the lowercased type: the parse
\* path, or the arm that returns the unsupported-type error.
OfferPath(sdp_type) == "offer"
ParsePath(sdp_type) ==
    CASE ToLowercase(sdp_type) = "offer" -> "offer"
      [] ToLowercase(sdp_type) = "answer" -> "answer"
      [] OTHER -> "unsupported"

\* commands/webrtc.rs 99-102: format!("Unsupported SDP type: {}", other)
Unsupported == "Unsupported SDP type"

\* commands/webrtc.rs 106-109: conn.pc.set_remote_description(sdp)
SetRemote(id, kind) == [peer EXCEPT ![id].remote_description = kind]

\* commands/webrtc.rs 83-112: set_remote_description(connection_id,
\* description) looks the connection up, matches on the type, parses the text
\* on the path the type selects and hands the result to the engine; each
\* failure returns.  The lookup only reads the table and the call works on its
\* own handle of the connection, so the call is one step.
SetRemoteDescription(id, sdp_type) ==
    /\ IF GetConnection(id) # "Ok"
       THEN /\ reply' = Reply("set_remote_description", id, FALSE, NotFound)
            /\ UNCHANGED peer
       ELSE IF ParsePath(sdp_type) = "unsupported"
       THEN /\ reply' = Reply("set_remote_description", id, TRUE, Unsupported)
            /\ UNCHANGED peer
       ELSE \/ /\ Open(id)
               /\ peer' = SetRemote(id, ParsePath(sdp_type))
               /\ reply' = Reply("set_remote_description", id, TRUE, "Ok")
            \/ /\ reply' = Reply("set_remote_description", id, TRUE,
                                 "Failed to parse SDP")
               /\ UNCHANGED peer
            \/ /\ reply' = Reply("set_remote_description", id, TRUE,
                                 "Failed to set remote description")
               /\ UNCHANGED peer
    /\ UNCHANGED <<connections, connection_to_device, returned, initialized,
                   device_streams, bridges, composite, attach, close, commands>>
    /\ UNCHANGED <<registryVars, streamVars, bridgeVars, pureVars>>

\* commands/webrtc.rs 57-69: create_answer(connection_id) looks the connection
\* up and has the engine make the answer, conn.pc.create_answer(None).await;
\* each Err returns.  The answer made is a local of the call.
AnswerCreate(id) ==
    /\ InProgress < MaxCalls
    /\ IF GetConnection(id) # "Ok"
       THEN /\ reply' = Reply("create_answer", id, FALSE, NotFound)
            /\ UNCHANGED commands
       ELSE \/ /\ Open(id)
               /\ commands' = Starts(Command("create_answer", "set_local_description", id))
               /\ UNCHANGED reply
            \/ /\ reply' = Reply("create_answer", id, TRUE, "Failed to create answer")
               /\ UNCHANGED commands
    /\ UNCHANGED <<connections, connection_to_device, peer, returned, initialized,
                   device_streams, bridges, composite, attach, close>>
    /\ UNCHANGED <<registryVars, streamVars, bridgeVars, pureVars>>

\* commands/webrtc.rs 11-34, webrtc.rs 76-121 and 157-184: the create_offer
\* command makes a connection of its own and attaches the track to it; nobody
\* else holds the id, so the two run with nothing of this connection's in
\* between.  An Err of create_peer_connection or of add_track returns.
OfferConnect ==
    /\ InProgress < MaxCalls
    /\ Len(peer) < MaxConnections
    /\ \/ /\ peer' = Append(peer, [NewPeer EXCEPT !.tracks = 1, !.video_track = TRUE])
          /\ connections' = connections \cup {Len(peer) + 1}
          /\ commands' = Starts(Command("create_offer", "create_offer", Len(peer) + 1))
          /\ UNCHANGED reply
       \/ /\ peer' = Append(peer, NewPeer)
          /\ connections' = connections \cup {Len(peer) + 1}
          /\ reply' = Reply("create_offer", Len(peer) + 1, TRUE,
                            "Failed to add video track")
          /\ UNCHANGED commands
       \/ /\ reply' = Reply("create_offer", UnknownId, FALSE,
                            "Failed to create peer connection")
          /\ UNCHANGED <<peer, connections, commands>>
    /\ UNCHANGED <<connection_to_device, returned, initialized, device_streams,
                   bridges, composite, attach, close>>
    /\ UNCHANGED <<registryVars, streamVars, bridgeVars, pureVars>>

\* commands/webrtc.rs 36-40: conn.pc.create_offer(None).await, Err returns; the
\* offer made is a local of the call.
OfferCreate(call) ==
    /\ call.op = "create_offer"
    /\ call.pc = "create_offer"
    /\ \/ /\ Open(call.connection_id)
          /\ commands' = Starts(Command("create_offer", "set_local_description",
                                        call.connection_id)) (-) SetToBag({call})
          /\ UNCHANGED reply
       \/ /\ commands' = Ends(call)
          /\ reply' = Reply("create_offer", call.connection_id, TRUE,
                            "Failed to create offer")
    /\ UNCHANGED <<connections, connection_to_device, peer, returned, initialized,
                   device_streams, bridges, composite, attach, close>>
    /\ UNCHANGED <<registryVars, streamVars, bridgeVars, pureVars>>

\* commands/webrtc.rs 42-45 and 71-74: set_local_description(description)
CommitNothing(id, kind) == peer
Commit(id, kind) == [peer EXCEPT ![id].local_description = kind]
Kind(op) == IF op = "create_offer" THEN "offer" ELSE "answer"

\* commands/webrtc.rs 42-53 and 71-79: conn.pc.set_local_description(
\* description.clone()).await, Err returns; Ok returns the description, and
\* create_offer the connection id with it.
DescriptionCommit(call) ==
    /\ call.pc = "set_local_description"
    /\ commands' = Ends(call)
    /\ \/ /\ Open(call.connection_id)
          /\ peer' = Commit(call.connection_id, Kind(call.op))
          /\ returned' = IF call.op = "create_offer"
                         THEN returned \cup {call.connection_id} ELSE returned
          /\ reply' = Reply(call.op, call.connection_id, TRUE, "Ok")
       \/ /\ reply' = Reply(call.op, call.connection_id, TRUE,
                            "Failed to set local description")
          /\ UNCHANGED <<peer, returned>>
    /\ UNCHANGED <<connections, connection_to_device, initialized,
                   device_streams, bridges, composite, attach, close>>
    /\ UNCHANGED <<registryVars, streamVars, bridgeVars, pureVars>>

\* commands/webrtc.rs 115-137: add_ice_candidate(connection_id, candidate)
\* looks the connection up and hands the candidate to the engine as it is.
AddIceCandidate(id) ==
    /\ IF GetConnection(id) # "Ok"
       THEN reply' = Reply("add_ice_candidate", id, FALSE, NotFound)
       ELSE \/ /\ Open(id)
               /\ reply' = Reply("add_ice_candidate", id, TRUE, "Ok")
            \/ reply' = Reply("add_ice_candidate", id, TRUE,
                              "Failed to add ICE candidate")
    /\ UNCHANGED <<connections, connection_to_device, peer, returned, initialized,
                   device_streams, bridges, composite, attach, close, commands>>
    /\ UNCHANGED <<registryVars, streamVars, bridgeVars, pureVars>>

\* webrtc.rs 189-209: what push_h264_sample(id, data, duration_ms) returns:
\* the lookup's error, the error of a connection with no track, or what
\* track.write_sample(&sample).await gave.
WriteAnyway(id) == {"Ok", "Failed to write H.264 sample"}
PushResults(id) ==
    IF GetConnection(id) # "Ok" THEN {NotFound}
    ELSE IF ~peer[id].video_track THEN {"No video track attached"}
    ELSE {"Ok", "Failed to write H.264 sample"}

\* webrtc.rs 189-209: push_h264_sample called on the manager; it holds the
\* video_track mutex from the read of the track to the end of write_sample.
PushH264Sample(id) ==
    /\ id \in connections => ~peer[id].locked
    /\ \E result \in PushResults(id) :
         reply' = Reply("push_h264_sample", id, id \in connections, result)
    /\ UNCHANGED <<connections, connection_to_device, peer, returned, initialized,
                   device_streams, bridges, composite, attach, close, commands>>
    /\ UNCHANGED <<registryVars, streamVars, bridgeVars, pureVars>>

\* The negotiation of a session under concurrent calls of the commands that
\* make, describe and close connections.
NegotiationNext ==
    \/ OfferConnect
    \/ \E call \in BagToSet(commands) : OfferCreate(call)
    \/ \E id \in Handles : AnswerCreate(id)
    \/ \E call \in BagToSet(commands) : DescriptionCommit(call)
    \/ \E id \in Handles, sdp_type \in DeclaredTypes : SetRemoteDescription(id, sdp_type)
    \/ \E id \in Handles : CloseRemove(id)
    \/ \E call \in BagToSet(close) : CloseUnbind(call)

NegotiationSpec == Init /\ [][NegotiationNext]_vars

\* The state create_peer_connection leaves when it returns Ok (webrtc.rs
\* 76-121) with no other call made: one connection, in the table, with no
\* track and no binding.
SessionId == 1
SessionInit ==
    /\ RegistryInit /\ StreamIdle /\ SideIdle
    /\ connections = {SessionId}
    /\ connection_to_device = << >>
    /\ peer = <<NewPeer>>
    /\ returned = {SessionId}
    /\ initialized = FALSE
    /\ device_streams = {}
    /\ bridges = {}
    /\ composite = [c \in CompositeCalls |-> IdleComposite]
    /\ attach = EmptyBag
    /\ close = EmptyBag
    /\ reply = NoReply

\* One session from the return of its create_peer_connection to its close,
\* under concurrent calls of the session-scoped operations with its id and
\* with an id no call made.
SessionNext ==
    \/ \E id \in Handles : RegisterDevice(id, StreamDevice)
    \/ \E id \in Handles : AttachGet(id)
    \/ \E call \in BagToSet(attach) : AttachLock(call)
    \/ \E call \in BagToSet(attach) : AttachAddTrack(call)
    \/ \E id \in Handles : AnswerCreate(id)
    \/ \E call \in BagToSet(commands) : DescriptionCommit(call)
    \/ \E id \in Handles, sdp_type \in DeclaredTypes : SetRemoteDescription(id, sdp_type)
    \/ \E id \in Handles : AddIceCandidate(id)
    \/ \E id \in Handles : GetConnectionState(id)
    \/ \E id \in Handles : PushH264Sample(id)
    \/ \E id \in Handles : CloseRemove(id)
    \/ \E call \in BagToSet(close) : CloseUnbind(call)

SessionSpec == SessionInit /\ [][SessionNext]_vars

\* ------------------------------------------------- the latest-value holder
\* spec.md 4.3: the single slot holds the last converted frame; a write
\* overwrites what is there.  The producer writes its frames by sequence id.
HolderWrite ==
    /\ holder < MaxWrites
    /\ holder' = holder + 1
    /\ UNCHANGED <<observed, consumer, bridge>>
    /\ UNCHANGED <<registryVars, streamVars, rtcVars, commands, pureVars>>

\* The value the consumer took last.
Seen == IF observed = << >> THEN NoFrame ELSE observed[Len(observed)]

\* spec.md 4.3 and 4.5: the consumer task waits for the next update of the
\* slot: it goes on when the slot holds a value it has not taken.
AlwaysChanged == TRUE
Changed == holder # Seen

ConsumerWake ==
    /\ consumer = "wait"
    /\ Changed
    /\ consumer' = "take"
    /\ UNCHANGED <<holder, observed, bridge>>
    /\ UNCHANGED <<registryVars, streamVars, rtcVars, commands, pureVars>>

\* spec.md 4.5: on each change the task takes the current value, the one
\* the slot holds when it reads, and processes it.
ConsumerTake ==
    /\ consumer = "take"
    /\ observed' = Append(observed, holder)
    /\ consumer' = "process"
    /\ UNCHANGED <<holder, bridge>>
    /\ UNCHANGED <<registryVars, streamVars, rtcVars, commands, pureVars>>

\* spec.md 4.3: the consumer is done with the value it took, however long
\* that took it, and waits again.
ConsumerProcess ==
    /\ consumer = "process"
    /\ consumer' = "wait"
    /\ UNCHANGED <<holder, observed, bridge>>
    /\ UNCHANGED <<registryVars, streamVars, rtcVars, commands, pureVars>>

ConsumerStep == ConsumerWake \/ ConsumerTake \/ ConsumerProcess

\* A producer that writes at its own pace and may stop after any frame, and
\* a consumer task that the runtime keeps scheduling.
HolderNext ==
    \/ HolderWrite
    \/ ConsumerWake
    \/ ConsumerTake
    \/ ConsumerProcess

HolderSpec == Init /\ [][HolderNext]_vars
HolderFairSpec == HolderSpec /\ WF_vars(ConsumerStep)

\* --------------------------------------------------- the Encoding Bridge
\* spec.md 4.5: the task of one (device, session) binding: where it stands,
\* the frame it took last, the last frame whose sample it pushed onto the
\* track, and the failure it logged.
BridgeTask(pc, taken, pushed, result) ==
    [pc |-> pc, taken |-> taken, pushed |-> pushed, result |-> result]

\* The state start_camera_webrtc_session leaves when it returns Ok
\* (commands/webrtc.rs 160-216) with no other call made: the session is in
\* the table with its track and its binding, the device stream is started
\* and the bridge's task waits for its first frame.
BoundInit ==
    /\ RegistryInit /\ StreamIdle
    /\ CommandsIdle /\ HolderIdle /\ SerdeIdle /\ ConversionIdle
    /\ connections = {SessionId}
    /\ connection_to_device = [id \in {SessionId} |-> StreamDevice]
    /\ peer = <<[NewPeer EXCEPT !.tracks = 1, !.video_track = TRUE,
                                !.local_description = "offer"]>>
    /\ returned = {SessionId}
    /\ initialized = TRUE
    /\ device_streams = {StreamDevice}
    /\ bridges = {<<StreamDevice, SessionId>>}
    /\ composite = [c \in CompositeCalls |->
                      IF c = 1
                      THEN [pc |-> "done", device_id |-> StreamDevice,
                            connection_id |-> SessionId, result |-> "Ok",
                            steps |-> CompositeOrder]
                      ELSE IdleComposite]
    /\ attach = EmptyBag
    /\ close = EmptyBag
    /\ reply = NoReply
    /\ bridge = BridgeTask("wait", NoFrame, NoFrame, None)

\* spec.md 4.5: wait for the next distributed frame; on each change, take
\* the current value.
BridgeTake ==
    /\ bridge.pc = "wait"
    /\ holder # bridge.taken
    /\ bridge' = [bridge EXCEPT !.pc = "encode", !.taken = holder]
    /\ UNCHANGED <<holder, observed, consumer>>
    /\ UNCHANGED <<registryVars, streamVars, rtcVars, commands, pureVars>>

\* spec.md 4.5: on encode failure or push failure the task logs and
\* terminates.
Retry(error) == [bridge EXCEPT !.pc = "wait", !.result = error]
Terminate(error) == [bridge EXCEPT !.pc = "terminated", !.result = error]

\* spec.md 4.5: encode it with the external encoder.
BridgeEncode ==
    /\ bridge.pc = "encode"
    /\ \/ bridge' = [bridge EXCEPT !.pc = "push"]
       \/ bridge' = Terminate("encode failed")
    /\ UNCHANGED <<holder, observed, consumer>>
    /\ UNCHANGED <<registryVars, streamVars, rtcVars, commands, pureVars>>

\* spec.md 4.5, webrtc.rs 189-209: if encoding succeeds push the access unit
\* onto the session's attached track: push_h264_sample, whose Err is the
\* push failure.
BridgePush ==
    /\ bridge.pc = "push"
    /\ SessionId \in connections => ~peer[SessionId].locked
    /\ \E result \in PushResults(SessionId) :
         bridge' = IF result = "Ok"
                   THEN [bridge EXCEPT !.pc = "wait", !.pushed = bridge.taken]
                   ELSE Terminate("push failed")
    /\ UNCHANGED <<holder, observed, consumer>>
    /\ UNCHANGED <<registryVars, streamVars, rtcVars, commands, pureVars>>

\* The bridge of one binding with the frames of its device arriving and the
\* session's close_connection; no command makes a binding for a session
\* that has had one.
BridgeNext ==
    \/ HolderWrite
    \/ BridgeTake
    \/ BridgeEncode
    \/ BridgePush
    \/ \E id \in Handles : CloseRemove(id)
    \/ \E call \in BagToSet(close) : CloseUnbind(call)

BridgeSpec == BoundInit /\ [][BridgeNext]_vars

\* ------------------------------------------------------- the wire values
\* webrtc.rs 315-327: the strings of a value are sequences of characters, of
\* which the quote, the backslash and the line feed are the ones JSON
\* escapes; an Option is None or Some(x); sdp_m_line_index is a u16.
U16Max == 65535
Texts == UNION {[1..k -> {"n", "quote", "backslash", "newline"}] : k \in 0..MaxText}
Absent == <<"None">>
Some(x) == <<"Some", x>>

SessionDescriptionData(sdp_type, sdp) ==
    [kind |-> "SessionDescriptionData", sdp_type |-> sdp_type, sdp |-> sdp]
IceCandidateData(candidate, sdp_mid, sdp_m_line_index) ==
    [kind |-> "IceCandidateData", candidate |-> candidate, sdp_mid |-> sdp_mid,
     sdp_m_line_index |-> sdp_m_line_index]

Values ==
    {SessionDescriptionData(sdp_type, sdp) : sdp_type \in Texts, sdp \in Texts}
    \cup
    {IceCandidateData(candidate, sdp_mid, sdp_m_line_index) :
        candidate \in Texts,
        sdp_mid \in {Absent} \cup {Some(x) : x \in {text \in Texts : Len(text) <= 1}},
        sdp_m_line_index \in {Absent} \cup {Some(i) : i \in {0, 10, U16Max}}}

\* derive(Serialize) on a String: a JSON string, with its escapes.
Escape(c) ==
    CASE c = "quote" -> <<"backslash", "quote">>
      [] c = "backslash" -> <<"backslash", "backslash">>
      [] c = "newline" -> <<"backslash", "n">>
      [] OTHER -> <<c>>
RECURSIVE EscapeText(_)
EscapeText(text) ==
    IF text = << >> THEN << >> ELSE Escape(Head(text)) \o EscapeText(Tail(text))

\* derive(Serialize) on a u16: its decimal digits.
RECURSIVE Digits(_)
Digits(n) == IF n < 10 THEN <<n>> ELSE Append(Digits(n \div 10), n % 10)

\* webrtc.rs 317: #[serde(rename = "type")] on sdp_type; the other fields go
\* under their own names.
FieldName(field) == field
Rename(field) == IF field = "sdp_type" THEN "type" ELSE field

\* webrtc.rs 315-327: derive(Serialize): the object's members in the order of
\* the fields; a String is a JSON string, a u16 a number, and the None of an
\* Option, with no skip_serializing_if, is null.
Serialize(v) ==
    LET String(text) == <<"string", EscapeText(text)>>
        OptionString(opt) == IF opt = Absent THEN <<"null">> ELSE String(opt[2])
        OptionU16(opt) ==
            IF opt = Absent THEN <<"null">> ELSE <<"number", Digits(opt[2])>>
    IN  IF v.kind = "SessionDescriptionData"
        THEN <<<<Rename("sdp_type"), String(v.sdp_type)>>,
               <<Rename("sdp"), String(v.sdp)>>>>
        ELSE <<<<Rename("candidate"), String(v.candidate)>>,
               <<Rename("sdp_mid"), OptionString(v.sdp_mid)>>,
               <<Rename("sdp_m_line_index"), OptionU16(v.sdp_m_line_index)>>>>

\* The member of an object under a key.
Member(object, key) ==
    IF \E i \in DOMAIN object : object[i][1] = key
    THEN object[CHOOSE i \in DOMAIN object : object[i][1] = key][2]
    ELSE <<"absent">>

\* derive(Deserialize) on a String: the JSON string with its escapes undone.
RECURSIVE UnescapeText(_)
UnescapeText(chars) ==
    IF chars = << >> THEN << >>
    ELSE IF Head(chars) = "backslash" /\ Len(chars) >= 2
    THEN <<IF chars[2] = "n" THEN "newline" ELSE chars[2]>>
         \o UnescapeText(Tail(Tail(chars)))
    ELSE <<Head(chars)>> \o UnescapeText(Tail(chars))

\* derive(Deserialize) on a u16: the number the digits write.
RECURSIVE Number(_)
Number(digits) ==
    IF digits = << >> THEN 0
    ELSE Number(SubSeq(digits, 1, Len(digits) - 1)) * 10 + digits[Len(digits)]

\* webrtc.rs 315-327: derive(Deserialize): each field from the member under
\* its name.  A String that is missing or is no string is an error; for an
\* Option, with no default, a missing member and a null are None; a u16 is
\* a number that fits.
Deserialize(kind, object) ==
    LET StringOf(json) ==
            IF json[1] = "string" THEN Some(UnescapeText(json[2])) ELSE Absent
        OptionStringOf(json) ==
            IF json[1] \in {"absent", "null"} THEN Some(Absent)
            ELSE IF json[1] = "string" THEN Some(Some(UnescapeText(json[2])))
            ELSE Absent
        OptionU16Of(json) ==
            IF json[1] \in {"absent", "null"} THEN Some(Absent)
            ELSE IF json[1] = "number" /\ Number(json[2]) <= U16Max
            THEN Some(Some(Number(json[2])))
            ELSE Absent
    IN  IF kind = "SessionDescriptionData"
        THEN LET sdp_type == StringOf(Member(object, Rename("sdp_type")))
                 sdp == StringOf(Member(object, Rename("sdp")))
             IN  IF Absent \in {sdp_type, sdp} THEN [kind |-> "Err"]
                 ELSE SessionDescriptionData(sdp_type[2], sdp[2])
        ELSE LET candidate == StringOf(Member(object, Rename("candidate")))
                 sdp_mid == OptionStringOf(Member(object, Rename("sdp_mid")))
                 sdp_m_line_index ==
                     OptionU16Of(Member(object, Rename("sdp_m_line_index")))
             IN  IF Absent \in {candidate, sdp_mid, sdp_m_line_index}
                 THEN [kind |-> "Err"]
                 ELSE IceCandidateData(candidate[2], sdp_mid[2], sdp_m_line_index[2])

\* A value of one of the two types, as a command is given it or returns it.
SerdeInit ==
    /\ RegistryInit /\ StreamIdle /\ RtcIdle
    /\ CommandsIdle /\ HolderIdle /\ BridgeIdle /\ ConversionIdle
    /\ value \in Values
    /\ wire = << >>
    /\ parsed = NoValue

\* The value is serialized.
SerdeSerialize ==
    /\ wire = << >>
    /\ wire' = Serialize(value)
    /\ UNCHANGED <<value, parsed, conversion, converted>>
    /\ UNCHANGED <<registryVars, streamVars, rtcVars, commands, bridgeVars>>

\* What was serialized is parsed as a value of the same type.
SerdeDeserialize ==
    /\ wire # << >>
    /\ parsed = NoValue
    /\ parsed' = Deserialize(value.kind, wire)
    /\ UNCHANGED <<value, wire, conversion, converted>>
    /\ UNCHANGED <<registryVars, streamVars, rtcVars, commands, bridgeVars>>

SerdeNext == SerdeSerialize \/ SerdeDeserialize

SerdeSpec == SerdeInit /\ [][SerdeNext]_vars

\* ------------------------------------------------------ the two converters
\* utils.rs 16 and 85: a call of a converter: the function, the width and the
\* height (u32), the length of the buffer, and whether the build checks
\* integer overflow (a debug build does, a release build wraps).
Call(fn, width, height, len, overflow_checks) ==
    [fn |-> fn, width |-> width, height |-> height, len |-> len,
     overflow_checks |-> overflow_checks]

\* The calls: the frames of the pipeline, the 640x480 frame of the tests
\* (utils.rs 235-281) and two frames of some 1.6 and 2.1 thousand million
\* pixels; buffers that are empty, of 100 bytes, of the size of the 640x480
\* frame, around the size the frame needs, and of 300 and 2147 million bytes.
Dimensions ==
    {<<FrameWidth, FrameHeight>>, <<1, 1>>, <<640, 480>>, <<40000, 40000>>,
     <<46340, 46340>>}
Pixels(call) == call.width * call.height
BufferLens(width, height) ==
    {0, 100, 460800, 300000000, 2147483647}
    \cup (IF width * height < 16777216
          THEN {ExpectedSize(width, height) - 1, ExpectedSize(width, height),
                ExpectedSize(width, height) + 1} \cap Nat
          ELSE {})
Calls ==
    {Call(fn, d[1], d[2], len, checks) :
        fn \in {"nv12_to_rgba", "yuv_to_rgba"}, d \in Dimensions,
        len \in UNION {BufferLens(e[1], e[2]) : e \in Dimensions},
        checks \in BOOLEAN}

\* What a converter gives: Ok with a buffer of a length, Err, or a panic.
OkBuffer(len) == [kind |-> "Ok", len |-> len]
ConversionError == [kind |-> "Err", len |-> 0]
Panic == [kind |-> "panic", len |-> 0]

\* u32 arithmetic on a pixel count below 2^31, in numbers below 2^31: 3 * x
\* wraps, once, from x = (2^32 + 2) / 3 on, and (3 * x mod 2^32) / 2 is then
\* x + x / 2 - 2^31.
TwoTo30 == 1073741824
Wraps(x) == x >= TwoTo30 /\ 2 * (x - TwoTo30) >= TwoTo30 + (TwoTo30 - x)

\* utils.rs 21: let expected_size = width * height * 3 / 2, in u32.
ExpectedSizeU32(call) ==
    IF Wraps(Pixels(call))
    THEN (Pixels(call) - TwoTo30) + (Pixels(call) \div 2 - TwoTo30)
    ELSE Pixels(call) + Pixels(call) \div 2

\* utils.rs 90: the same in usize, which holds it: the buffer is shorter
\* than width * height * 3 / 2.
Short(call) == call.len - Pixels(call) < Pixels(call) \div 2

\* utils.rs 31-41: the three planes sliced off the buffer end at
\* y_plane_size + 2 * u_plane_size; a buffer that ends before that panics
\* at the slice.
SliceOutOfRange(call) == call.len - Pixels(call) < 2 * (Pixels(call) \div 4)

\* utils.rs 48-73 and 113-138: the output buffer has width * height * 4
\* bytes; the yuv crate's kernel fills it or returns an error.
Kernel(call) == {OkBuffer(Pixels(call) * 4), ConversionError}

\* utils.rs 16-74: yuv_to_rgba.
YuvToRgba(call) ==
    IF Wraps(Pixels(call)) /\ call.overflow_checks THEN {Panic}
    ELSE IF call.len < ExpectedSizeU32(call) THEN {ConversionError}
    ELSE IF SliceOutOfRange(call) THEN {Panic}
    ELSE Kernel(call)

\* utils.rs 85-139: nv12_to_rgba.
Nv12ToRgba(call) ==
    IF Short(call) THEN {ConversionError} ELSE Kernel(call)

\* A call of one of the converters with a frame of any of the sizes.
ConversionInit ==
    /\ RegistryInit /\ StreamIdle /\ RtcIdle
    /\ CommandsIdle /\ HolderIdle /\ BridgeIdle /\ SerdeIdle
    /\ conversion \in Calls
    /\ converted = NoResult

ConversionReturn ==
    /\ converted = NoResult
    /\ converted' \in IF conversion.fn = "yuv_to_rgba"
                      THEN YuvToRgba(conversion) ELSE Nv12ToRgba(conversion)
    /\ UNCHANGED <<conversion, value, wire, parsed>>
    /\ UNCHANGED <<registryVars, streamVars, rtcVars, commands, bridgeVars>>

ConversionSpec == ConversionInit /\ [][ConversionReturn]_vars

\* ------------------------------------------------------------------ claims
Standing(pc) == {inv \in BagToSet(cb) : inv.pc = pc}
\* Frames accepted and not yet completed: about to be queued, queued, or on a
\* pool thread.
InFlight == Cardinality(Standing("spawn")) + Len(queue) + Cardinality(workers)
Drained == active = 0 /\ cb = EmptyBag /\ queue = << >> /\ workers = {}
Proceeded(k) ==
    \/ stop[k].pc \in {"stop_preview", "clear_callback"}
    \/ stop[k].pc = "done" /\ stop[k].result # "StreamNotFound"
Before(calls, first, then) ==
    \A i \in DOMAIN calls :
        calls[i] = then => \E j \in DOMAIN calls : j < i /\ calls[j] = first

\* C1: the registry never holds two sessions that were started on the same
\* device id.
C1_OneSessionPerDevice ==
    \A s, u \in DOMAIN active_streams :
        s # u => start[s].device_id # start[u].device_id

\* C2: the admission counter is always between 0 and the pool capacity 3.
C2_CounterWithinCapacity == active >= 0 /\ active <= PoolCapacity

\* C3: a frame is accepted only when the counter it reserved from was below
\* 3, and the frames accepted and not yet completed never number more than 3.
C3_AcceptedWithinCapacity ==
    /\ [](InFlight <= PoolCapacity)
    /\ [][Cardinality(Standing("spawn"))' > Cardinality(Standing("spawn"))
            => active < PoolCapacity]_vars

C3_Witness == InFlight = PoolCapacity /\ BagCardinality(cb) = MaxCallbackThreads

\* C4: the counter is exactly the frames accepted and not yet completed plus
\* the reservations a rejecting callback has still to give back: every
\* accepted frame holds one slot until its job ends, whichever way it ends,
\* and a rejected frame leaves nothing behind.
C4_SlotReleasedOnce == active = InFlight + Cardinality(Standing("undo"))

\* Frame 1 met an empty pool, so it was accepted; it ended without a delivery.
C4_Witness == frame_counter = 2 /\ channel = << >> /\ Drained

\* C5: under fair scheduling of the callbacks in progress and of the pool's
\* threads, every accepted conversion completes and the counter returns to 0
\* and stays there once no more frames are submitted, stopped stream or not.
C5_CounterReturnsToZero == <>[]Drained

C5_Witness ==
    ~running[StreamId] /\ channel # << >> /\ Drained /\ frame_counter = MaxFrames

\* C6: the frame ids on the channel are strictly increasing.
C6_DeliveredInOrder ==
    \A i, j \in DOMAIN channel : i < j => channel[i] < channel[j]

\* C7: once the stream's liveness flag is false nothing more is sent on the
\* channel.
C7_NoDeliveryAfterStop == [][~running[StreamId] => channel' = channel]_vars

\* C8: stop_stream replaces the callback by the no-op before it asks the
\* Capture Provider to stop the device.
C8_CallbackClearedBeforeStop ==
    \A k \in StopCalls : Before(stop[k].calls, "set_callback", "stop_camera_preview")

\* C9: a stop_stream that returns the error of the device stop has still
\* replaced the callback by the no-op.
C9_BestEffortTeardown ==
    \A k \in StopCalls :
        stop[k].result = "CameraError: stop camera"
            => \E i \in DOMAIN stop[k].calls : stop[k].calls[i] = "set_callback"

\* C10: of the stop_stream calls made with one session id, one proceeds to
\* teardown exactly when the session was registered and is gone, the others
\* fail with StreamNotFound, and a call makes its first request to the Capture
\* Provider only after the entry is removed.
C10_OneStopProceeds ==
    /\ \A s \in SessionIds :
         Cardinality({k \in StopCalls : stop[k].session_id = s /\ Proceeded(k)})
           = IF start[s].result = "Ok" /\ s \notin DOMAIN active_streams THEN 1 ELSE 0
    /\ \A k \in StopCalls :
         \/ Proceeded(k)
         \/ stop[k].pc = "idle"
         \/ stop[k].result = "StreamNotFound" /\ stop[k].calls = << >>
    /\ \A k \in StopCalls :
         stop[k].calls # << >> => stop[k].session_id \notin DOMAIN active_streams

C10_Witness ==
    \E k, j \in StopCalls :
        /\ k # j
        /\ stop[k].session_id = stop[j].session_id
        /\ stop[k].pc = "done" /\ stop[k].result = "Ok"
        /\ stop[j].pc = "done" /\ stop[j].result = "StreamNotFound"

\* C11: a start_stream on a device for which the registry holds a session
\* that was started on it returns StreamingAlreadyActive and leaves the
\* registry as it is, and a stop_stream for an id the registry does not hold
\* returns StreamNotFound.
C11_SecondStartRejected ==
    [][\A c \in StartCalls :
          /\ start[c].pc = "idle" /\ start'[c].pc # "idle"
          /\ \E s \in DOMAIN active_streams : start[s].device_id = start'[c].device_id
          => /\ start'[c].result = "StreamingAlreadyActive"
             /\ active_streams' = active_streams]_vars

\* C12: a stop_stream with a session id the registry does not hold returns
\* StreamNotFound having changed nothing: the registry, the liveness flags and
\* the Capture Provider's previews and callbacks are as before, and the call
\* has made no request to the Capture Provider.
C12_UnknownStopChangesNothing ==
    [][\A k \in StopCalls :
          /\ stop[k].pc = "idle" /\ stop'[k].pc # "idle"
          /\ stop'[k].session_id \notin DOMAIN active_streams
          => /\ stop'[k].pc = "done" /\ stop'[k].result = "StreamNotFound"
             /\ stop'[k].calls = << >>
             /\ active_streams' = active_streams /\ running' = running
             /\ preview' = preview /\ callback' = callback]_vars

\* A session is registered and live when a stop for an id no start_stream has
\* made has failed.
C12_Witness ==
    \E k \in StopCalls, s \in SessionIds :
        /\ stop[k].result = "StreamNotFound" /\ stop[k].session_id = s
        /\ start[s].pc = "idle"
        /\ \E u \in DOMAIN active_streams : running[u]

\* C13: a device is Idle when the registry holds no session started on it.
\* The stop_stream that takes a session out of the registry leaves the
\* session's device Idle, and a start_stream on an Idle device is not
\* rejected with StreamingAlreadyActive.
C13_IdleActiveIdle ==
    [][/\ \A k \in StopCalls :
            stop[k].pc = "idle" /\ stop'[k].pc = "stop_preview"
            => \A u \in DOMAIN active_streams' :
                  start[u].device_id # start[stop'[k].session_id].device_id
       /\ \A c \in StartCalls :
            /\ start[c].pc = "idle" /\ start'[c].pc # "idle"
            /\ \A u \in DOMAIN active_streams :
                  start[u].device_id # start'[c].device_id
            => start'[c].result # "StreamingAlreadyActive"]_vars

\* The step on which admission control rejects the frame of a callback
\* invocation: the load that finds the pool full, or the give-back after the
\* double check.
Rejects(inv) ==
    /\ inv.pc = "undo" \/ (inv.pc = "load" /\ PoolFull(active))
    /\ cb' = Returned(inv)

\* C14: a frame that admission control rejects because the pool is full has
\* not been counted against the sequence id: when its callback returns, the
\* frame sequence counter has not moved past the value it had for this frame.
C14_RejectedFrameNotCounted ==
    [][\A inv \in BagToSet(cb) : Rejects(inv) => frame_counter' <= inv.frame_id]_vars

\* C15: a peer connection has at most one video track registered on it, and
\* once an attach_h264_video_track for it has returned Ok, or the manager holds
\* a track for it, it has exactly one: add_track succeeded once, whatever the
\* number and the interleaving of the calls.
C15_AtMostOneTrack ==
    /\ \A id \in DOMAIN peer :
         /\ peer[id].tracks <= 1
         /\ peer[id].video_track <=> peer[id].tracks = 1
    /\ reply.op = "attach_h264_video_track" /\ reply.result = "Ok"
         => peer[reply.connection_id].tracks = 1

\* An attach for a connection has returned Ok and further calls for the same
\* connection are under way, as many as run at a time.
C15_Witness ==
    \E id \in DOMAIN peer :
        /\ reply = Reply("attach_h264_video_track", id, TRUE, "Ok")
        /\ CopiesIn(AttachCall("lock", id), attach) = MaxCalls

\* The step on which a close_connection call returns.
Closes(call) == close' = close (-) SetToBag({call})

\* C16: a close_connection whose id the connection table did not hold returns
\* an error, and leaves the connection table and the binding table as they
\* were.
C16_UnknownCloseFails ==
    [][\A call \in BagToSet(close) :
          ~call.found /\ Closes(call)
          => /\ reply'.result # "Ok"
             /\ connections' = connections
             /\ connection_to_device' = connection_to_device]_vars

ClosesWithError(id) ==
    /\ id \in connections /\ connections' = connections \ {id}
    /\ close' = close
    /\ reply'.op = "close_connection" /\ reply'.connection_id = id

\* C18: when a close_connection that found its connection returns, with Ok or
\* with the error of closing the peer connection, the id is in neither the
\* connection table nor the binding table.
C18_ClosedLeavesNothing ==
    [][\A id \in DOMAIN peer :
          \/ Closes(CloseCall(id, TRUE)) /\ CloseCall(id, TRUE) \in BagToSet(close)
          \/ ClosesWithError(id)
          => /\ id \notin connections'
             /\ id \notin DOMAIN connection_to_device']_vars

\* The errors a step of the composite can hand to its `?`.
StepErrors(step) ==
    CASE step = "initialize" -> {"Failed to initialize camera system"}
      [] step = "create_peer_connection" -> {"Failed to create peer connection"}
      [] step = "register_device_for_connection" -> {}
      [] step = "attach_h264_video_track" -> {NotFound, "Failed to add video track"}
      [] step = "start_streaming" -> {"Failed to start streaming"}
      [] step = "connect_camera_to_webrtc" -> {"Failed to connect camera"}
      [] step = "get_connection" -> {NotFound}
      [] step = "create_offer" -> {"Failed to create offer"}
      [] step = "set_local_description" -> {"Failed to set local description"}
Failed(c) == composite[c].result \notin {"none", "Ok"}
\* The steps of call c that returned Ok include the one at position n.
Completed(c, n) ==
    Len(composite[c].steps) > n \/ (Len(composite[c].steps) = n /\ ~Failed(c))

\* C19: a composite call that has an error has returned; the error is one of
\* the last step it ran, the steps it ran are the first ones of the order, so
\* no step after the failing one ran; and what the steps before it made is in
\* place: the connection in the table, the binding, the one track, the
\* started device stream and the bridge.
C19_FirstErrorNoRollback ==
    \A c \in CompositeCalls :
        /\ composite[c].steps = SubSeq(CompositeOrder, 1, Len(composite[c].steps))
        /\ Failed(c) =>
             /\ composite[c].pc = "done"
             /\ composite[c].steps # << >>
             /\ composite[c].result
                  \in StepErrors(composite[c].steps[Len(composite[c].steps)])
        /\ Failed(c) /\ Completed(c, 2) =>
             composite[c].connection_id \in connections
        /\ Failed(c) /\ Completed(c, 3) =>
             /\ composite[c].connection_id \in DOMAIN connection_to_device
             /\ connection_to_device[composite[c].connection_id] = composite[c].device_id
        /\ Failed(c) /\ Completed(c, 4) =>
             /\ peer[composite[c].connection_id].video_track
             /\ peer[composite[c].connection_id].tracks = 1
        /\ Failed(c) /\ Completed(c, 5) =>
             composite[c].device_id \in device_streams
        /\ Failed(c) /\ Completed(c, 6) =>
             <<composite[c].device_id, composite[c].connection_id>> \in bridges

\* The composite failed at its last step, after every resource was made.
C19_Witness ==
    \E c \in CompositeCalls :
        /\ composite[c].result = "Failed to set local description"
        /\ composite[c].connection_id \in connections
        /\ <<composite[c].device_id, composite[c].connection_id>> \in bridges

\* The seven steps in their order; the last, create and commit the offer, is
\* the call of create_offer and the call of set_local_description.
SevenSteps ==
    <<"initialize", "create_peer_connection", "register_device_for_connection",
      "attach_h264_video_track", "start_streaming", "connect_camera_to_webrtc",
      "create_offer", "set_local_description">>
NotLookup(step) == step # "get_connection"
Ran(c) == SelectSeq(composite[c].steps, NotLookup)

Recognised(sdp_type) == ToLowercase(sdp_type) \in {"offer", "answer"}

\* C21: a set_remote_description for a session of the table whose declared
\* type, lowercased, is neither "offer" nor "answer" returns the
\* unsupported-type error and leaves every peer connection as it was; a type
\* that lowercases to "offer" or "answer" never gets that error, the remote
\* description an Ok leaves is the one of the path the lowercased type
\* names, and an error leaves every peer connection as it was.
C21_TypeSelectsPath ==
    [][\A id \in connections, sdp_type \in DeclaredTypes :
          SetRemoteDescription(id, sdp_type)
          => /\ ~Recognised(sdp_type)
                  => reply'.result = Unsupported /\ peer' = peer
             /\ Recognised(sdp_type)
                  => /\ reply'.result # Unsupported
                     /\ reply'.result = "Ok"
                          => peer'[id].remote_description = ToLowercase(sdp_type)
                     /\ reply'.result # "Ok" => peer' = peer]_vars

\* A session whose remote description is the offer has had a description of
\* an unsupported type refused.
C21_Witness ==
    \E id \in connections :
        /\ reply = Reply("set_remote_description", id, TRUE, Unsupported)
        /\ peer[id].remote_description = "offer"

\* C21 as stated: a set_remote_description whose declared type is anything
\* other than "offer" or "answer", letter for letter, returns the
\* unsupported-type error and leaves every peer connection as it was.
C21_ExactTypeOnly ==
    [][\A id \in connections, sdp_type \in DeclaredTypes :
          SetRemoteDescription(id, sdp_type) /\ sdp_type \notin {"offer", "answer"}
          => reply'.result = Unsupported /\ peer' = peer]_vars

\* The commands that return a description.
Describing == {"create_offer", "create_answer"}

\* C22: create_offer and create_answer return Ok only in the step in which
\* set_local_description committed the description they made, and the local
\* description of the session is then that description; a call that returns
\* an error, from making the description or from committing it, leaves the
\* local description of every session as it was, unset if it was unset; and
\* a local description changes in no step but the one that returns Ok.
C22_CommittedBeforeReturned ==
    [][/\ \A call \in BagToSet(commands) :
            /\ DescriptionCommit(call)
                 => IF reply'.result = "Ok"
                    THEN peer'[call.connection_id].local_description = Kind(call.op)
                    ELSE peer' = peer
            /\ OfferCreate(call)
                 => peer' = peer /\ (reply' # reply => reply'.result # "Ok")
       /\ \A id \in Handles :
            AnswerCreate(id)
            => peer' = peer /\ (reply' # reply => reply'.result # "Ok")
       /\ OfferConnect
            => /\ reply' # reply => reply'.result # "Ok"
               /\ \A id \in DOMAIN peer' \ DOMAIN peer :
                    peer'[id].local_description = None
       /\ \A id \in DOMAIN peer :
            peer'[id].local_description # peer[id].local_description
            => /\ reply'.op \in Describing
               /\ reply'.connection_id = id
               /\ reply'.result = "Ok"]_vars

\* A session has had its offer committed and returned by create_offer, and a
\* create_answer whose commit failed has left that local description alone.
C22_Witness ==
    \E id \in connections :
        /\ reply = Reply("create_answer", id, TRUE, "Failed to set local description")
        /\ id \in returned
        /\ peer[id].local_description = "offer"

\* The ids of the frames the channel was given.
Delivered == {channel[i] : i \in DOMAIN channel}

\* C23: the job of a frame whose format tag is unsupported or whose
\* conversion fails goes from the match to the drop of its guard: the step
\* sends nothing on the channel, the frame's id is not in the channel, the
\* session stays in the registry with its running flag and its callback as
\* they were, and a callback can be entered after the step if it could
\* before; and the channel is given an event only by a job that stands at
\* the send, one event, so a job that returned from the match gives none.
C23_FailedFrameDiscardedSilently ==
    [][/\ \A frame \in Frames :
            WorkerConvert(frame) /\ Convert(frame) = "return"
            => /\ Job(Head(queue), "drop") \in workers'
               /\ Job(Head(queue), "send") \notin workers'
               /\ channel' = channel
               /\ Head(queue) \notin Delivered
               /\ active_streams' = active_streams
               /\ running' = running
               /\ callback' = callback
               /\ (ENABLED CallbackEnter) => (ENABLED CallbackEnter)'
       /\ channel' # channel
            => \E job \in workers :
                 /\ job.pc = "send"
                 /\ channel' = Append(channel, FrameEvent(job))
                 /\ Job(job.frame_id, "drop") \in workers']_vars

\* A job stands at the drop of its guard with nothing of its frame in the
\* channel, a frame that came after it has been delivered, and the session
\* is in the registry with its running flag true and its callback registered.
C23_Witness ==
    \E job \in workers :
        /\ job.pc = "drop"
        /\ job.frame_id \notin Delivered
        /\ \E later \in Delivered : later > job.frame_id
        /\ StreamId \in DOMAIN active_streams
        /\ running[StreamId]
        /\ Registered

\* The steps of one callback invocation, and how many it has left at most.
OwnStep(inv) ==
    \/ CallbackCount(inv)
    \/ CallbackLoad(inv)
    \/ CallbackReserve(inv)
    \/ CallbackUndo(inv)
    \/ CallbackSpawn(inv)
StepsLeft(pc) ==
    CASE pc = "count" -> 4
      [] pc = "load" -> 3
      [] pc = "reserve" -> 2
      [] OTHER -> 1

\* C24: in every reachable state every callback invocation in progress has a
\* step of its own to take, whatever the admission counter, the queue and the
\* pool's threads hold; each of its steps either returns or leaves it with
\* fewer steps to go, four at most from its entry; and it returns either
\* with its frame queued as one unit of work or with nothing queued.
C24_CallbackNeverWaits ==
    /\ [](\A inv \in BagToSet(cb) : ENABLED <<OwnStep(inv)>>_vars)
    /\ [][\A inv \in BagToSet(cb) :
            OwnStep(inv)
            => \/ /\ cb' = Returned(inv)
                  /\ \/ queue' = Append(queue, inv.frame_id)
                     \/ queue' = queue
               \/ /\ \E next \in BagToSet(cb') :
                       /\ cb' = Moved(inv, next)
                       /\ StepsLeft(next.pc) < StepsLeft(inv.pc)
                  /\ queue' = queue]_vars

\* All three slots are taken, the pool's threads are all busy, and a callback
\* invocation is about to load the counter.
C24_Witness ==
    /\ active = PoolCapacity
    /\ Cardinality(workers) = NumThreads
    /\ \E inv \in BagToSet(cb) : inv.pc = "load"

\* The call of op with id returns the lookup's error and leaves the
\* connection table, the binding table and every connection as they were,
\* with no call of the manager's or of a command's left in progress for it.
Refused(op, id) ==
    /\ reply' = Reply(op, id, FALSE, NotFound)
    /\ connections' = connections
    /\ connection_to_device' = connection_to_device
    /\ peer' = peer
    /\ attach' = attach
    /\ commands' = commands

\* C25: attach_h264_video_track, create_answer, set_remote_description,
\* add_ice_candidate, get_connection_state and push_h264_sample, called with
\* an id that is not in the connection table (one no call made, or one whose
\* connection was closed), each return the not-found error and leave the
\* connection table, the binding table and every connection's track as they
\* were.
C25_MissingSessionRefused ==
    [][\A id \in Handles :
          id \notin connections
          => /\ AttachGet(id) => Refused("attach_h264_video_track", id)
             /\ AnswerCreate(id) => Refused("create_answer", id)
             /\ \A sdp_type \in DeclaredTypes :
                  SetRemoteDescription(id, sdp_type)
                  => Refused("set_remote_description", id)
             /\ AddIceCandidate(id) => Refused("add_ice_candidate", id)
             /\ GetConnectionState(id) => Refused("get_connection_state", id)
             /\ PushH264Sample(id) => Refused("push_h264_sample", id)]_vars

\* A call with an id no call made was refused while the session of the table
\* has its track and its binding.
C25_Witness ==
    /\ reply = Reply("push_h264_sample", UnknownId, FALSE, NotFound)
    /\ SessionId \in connections
    /\ peer[SessionId].video_track
    /\ SessionId \in DOMAIN connection_to_device

\* C26: the ids the consumer observes are strictly increasing and each is one
\* the producer wrote; the slot holds one frame, the last one written; and
\* once the producer has written the last of its frames the consumer comes
\* to observe it, and it is then the last id it observed.
C26_LatestValueObserved ==
    /\ [](/\ \A i \in DOMAIN observed, j \in DOMAIN observed :
               i < j => observed[i] < observed[j]
          /\ \A i \in DOMAIN observed : observed[i] \in 1..holder
          /\ holder \in 0..MaxWrites)
    /\ (holder = MaxWrites) ~> [](Seen = MaxWrites /\ consumer = "wait")

\* The producer ran ahead of the consumer: the consumer has observed F1 and
\* then F5 and none of the frames between them.
C26_Witness ==
    /\ holder = MaxWrites
    /\ observed = <<1, MaxWrites>>
    /\ consumer = "wait"

\* C27: the task that logged an encode failure or a push failure is
\* terminated and stays as it is: it takes no frame, encodes nothing and
\* pushes no sample again; the step of its first failure terminates it
\* without a sample pushed; and a sample is pushed only by the step of a
\* task that has not failed.
C27_BridgeStopsAtFirstFailure ==
    /\ [](bridge.result # None <=> bridge.pc = "terminated")
    /\ [][/\ bridge.result # None => bridge' = bridge
          /\ bridge.result = None /\ bridge'.result # None
               => /\ bridge'.pc = "terminated"
                  /\ bridge'.pushed = bridge.pushed
                  /\ bridge'.taken = bridge.taken
          /\ bridge'.pushed # bridge.pushed
               => /\ bridge.pc = "push"
                  /\ bridge'.result = None
                  /\ bridge'.pushed = bridge.taken]_vars

\* The task pushed a sample, then a push failed and it terminated, and a
\* frame written since is in the slot with nothing of it pushed.
C27_Witness ==
    /\ bridge.pc = "terminated"
    /\ bridge.result = "push failed"
    /\ bridge.pushed # NoFrame
    /\ bridge.pushed < bridge.taken
    /\ bridge.taken < holder

\* C28: what parsing the serialized value gives is the value: the same type
\* and sdp, or the same candidate, sdp_mid and sdp_m_line_index with a None
\* still None; a session description's type is the member "type" of the
\* object and there is no member "sdp_type"; and a None of a candidate is
\* the member null.
C28_RoundTrip ==
    /\ parsed # NoValue => parsed = value
    /\ wire # << >> /\ value.kind = "SessionDescriptionData"
         => /\ Member(wire, "type") = <<"string", EscapeText(value.sdp_type)>>
            /\ Member(wire, "sdp") = <<"string", EscapeText(value.sdp)>>
            /\ Member(wire, "sdp_type") = <<"absent">>
    /\ wire # << >> /\ value.kind = "IceCandidateData"
         => /\ value.sdp_mid = Absent <=> Member(wire, "sdp_mid") = <<"null">>
            /\ value.sdp_m_line_index = Absent
                 <=> Member(wire, "sdp_m_line_index") = <<"null">>

\* A candidate whose text has a backslash before an n, with no sdp_mid and
\* the largest line index, has been serialized and parsed back.
C28_Witness ==
    /\ parsed = value
    /\ value = IceCandidateData(<<"backslash", "n">>, Absent, Some(U16Max))

\* C29: a converter called with a buffer shorter than width * height * 3 / 2
\* bytes returns an error, and called with any other buffer it returns an
\* error of the kernel's or a buffer of exactly width * height * 4 bytes.
C29_SizeValidated ==
    converted # NoResult
    => IF Short(conversion)
       THEN converted = ConversionError
       ELSE converted \in {ConversionError, OkBuffer(Pixels(conversion) * 4)}

\* The sequence ids the fixed skip policy is about.
EveryNth(frame_id) == frame_id % LogEvery = 0

\* C30: the callback that draws a sequence id that is a multiple of 150, 0
\* among them, returns in that step with the admission counter, the queue,
\* the pool's jobs and the channel as they were; the callback that draws any
\* other id goes on to the load of the admission counter with that id; and
\* no invocation past the draw, no queued work, no job and no delivered
\* event has an id that is a multiple of 150.
C30_SkippedBeforeAdmission ==
    /\ [](/\ \A inv \in BagToSet(cb) : inv.pc # "count" => ~EveryNth(inv.frame_id)
          /\ \A i \in DOMAIN queue : ~EveryNth(queue[i])
          /\ \A job \in workers : ~EveryNth(job.frame_id)
          /\ \A frame_id \in Delivered : ~EveryNth(frame_id))
    /\ [][\A inv \in BagToSet(cb) :
            CallbackCount(inv)
            => IF EveryNth(frame_counter)
               THEN /\ cb' = Returned(inv)
                    /\ active' = active
                    /\ queue' = queue
                    /\ workers' = workers
                    /\ channel' = channel
               ELSE /\ cb' = Moved(inv, Invocation("load", frame_counter))
                    /\ active' = active
                    /\ queue' = queue]_vars

\* The first frame of the stream, id 0, was skipped and the one after it
\* has been admitted, converted and delivered.
C30_Witness ==
    /\ 0 \notin Delivered
    /\ 1 \in Delivered
    /\ running[StreamId]

\* C31: a callback invocation that finds the stream's liveness flag false
\* returns at once: no invocation gets past the check while the flag is
\* false, and with none in progress from before the frame counter is not
\* advanced, the admission counter is not incremented and nothing is queued.
Entered ==
    CopiesIn(Invocation("count", 0), cb') > CopiesIn(Invocation("count", 0), cb)

C31_StoppedCallbackChangesNothing ==
    [][~running[StreamId]
         => /\ ~Entered
            /\ cb = EmptyBag
                 => /\ cb' = EmptyBag
                    /\ frame_counter' = frame_counter
                    /\ active' \in {active, FetchSub(active)}
                    /\ Len(queue') <= Len(queue)]_vars

\* The flag is false, the closure is still the device's callback and the
\* provider has frames left to hand it, with no invocation in progress.
C31_Witness ==
    /\ ~running[StreamId]
    /\ Registered
    /\ cb = EmptyBag
    /\ frame_counter \in 1..(MaxFrames - 1)
    /\ ENABLED CallbackEnter

\* C32: no two callback invocations obtain the same frame id: every id drawn
\* is held by at most one invocation or job at a time, is below the counter,
\* is delivered at most once, and once delivered is held by nothing but the
\* job that sent it, on its way out.
Drawn == {inv \in BagToSet(cb) : inv.pc # "count"}
Holders(frame_id) ==
    LET invocations == {inv \in Drawn : inv.frame_id = frame_id}
        copies == IF invocations = {} THEN 0
                  ELSE CopiesIn(CHOOSE inv \in invocations : TRUE, cb)
    IN  IF Cardinality(invocations) > 1 THEN 2
        ELSE copies
             + Cardinality({i \in DOMAIN queue : queue[i] = frame_id})
             + Cardinality({job \in workers : job.frame_id = frame_id})
Deliveries(frame_id) == Cardinality({i \in DOMAIN channel : channel[i] = frame_id})

C32_FrameIdsUnique ==
    \A frame_id \in 0..MaxFrames :
        /\ Holders(frame_id) <= 1
        /\ Deliveries(frame_id) <= 1
        /\ Holders(frame_id) + Deliveries(frame_id) > 0 => frame_id < frame_counter
        /\ Deliveries(frame_id) = 1
             => \A inv \in Drawn : inv.frame_id # frame_id
        /\ Deliveries(frame_id) = 1
             => \A i \in DOMAIN queue : queue[i] # frame_id
        /\ Deliveries(frame_id) = 1
             => \A job \in workers : job.frame_id = frame_id => job.pc = "drop"

\* Two invocations hold their ids at the same time, after two deliveries.
C32_Witness ==
    /\ Cardinality(Drawn) = 2
    /\ Len(channel) = 2

\* C33: the device identifier of a registry entry is the device id passed to
\* the start_stream call that made the entry (call s makes session s), and a
\* stop_stream that proceeds addresses that device.
C33_EntryHoldsDeviceId ==
    /\ \A s \in DOMAIN active_streams :
         active_streams[s].camera_id = start[s].device_id
    /\ \A k \in StopCalls :
         stop[k].pc \in {"stop_preview", "clear_callback"}
            => stop[k].camera_id = start[stop[k].session_id].device_id

\* C34: a start_stream that returned an error has made no registry entry, and
\* one that had opened the device (its callback registration failed) has
\* asked the Capture Provider to stop the device again before returning.
Asked(calls, request) == \E i \in DOMAIN calls : calls[i] = request

C34_FailedStartLeavesNothing ==
    \A c \in StartCalls :
        start[c].pc = "done" /\ start[c].result # "Ok"
            => /\ c \notin DOMAIN active_streams
               /\ start[c].result = "CameraError: callback"
                    => Asked(start[c].calls, "stop_camera_preview")

\* C35: once a stop_stream of a registered session has returned the error of
\* a teardown step the session is out of the registry: a later stop_stream
\* with its id returns StreamNotFound, and a start_stream on its device is
\* rejected as already active only if another session started on that
\* device is registered.
TeardownFailed(k) ==
    /\ stop[k].pc = "done"
    /\ stop[k].result \in {"CameraError: stop camera", "CameraError: clear callback"}

C36_BindingHasSession == DOMAIN connection_to_device \subseteq connections

\* C37: when create_offer has returned an error the connection it made is
\* not in the connection table.
C37_FailedOfferLeavesNoConnection ==
    reply.op = "create_offer" /\ reply.result # "Ok"
        => reply.connection_id \notin connections

\* C38: yuv_to_rgba's size check, made in 32-bit arithmetic, refuses exactly
\* the buffers that are shorter than width * height * 3 / 2 bytes, and no
\* call gets past it to slice planes the buffer does not hold.
C38_SizeCheckAgrees ==
    conversion.fn = "yuv_to_rgba" /\ converted # NoResult
        => /\ conversion.len < ExpectedSizeU32(conversion) <=> Short(conversion)
           /\ converted # Panic

====
